---- MODULE Spec2Model ----
(***************************************************************************)
(* Model of the aegis agent (apps/agent): the shared AgentRuntimeState,    *)
(* the USB watcher (usb.rs), the manual backup and restore requests        *)
(* (ipc.rs) and the backup run orchestrator (backup.rs).                   *)
(*                                                                         *)
(* Every acquisition of the state lock is one atomic step: the code holds  *)
(* the tokio RwLock only inside one block and releases it before the next  *)
(* await, so other tasks interleave between two blocks, never inside one.  *)
(***************************************************************************)
EXTENDS Integers, Sequences, FiniteSets, TLC

\* ---------------------------------------------------------------- bounds
\* Number of backup tasks (manual or automatic) over one behaviour.
MaxJobs == 2
\* Number of restore_snapshot requests over one behaviour.
MaxRestores == 2
\* Number of status lines the engine emits during one backup.
MaxReports == 1
\* Number of hotplug add events over one behaviour.
MaxHotplug == 2
\* Number of setup_drive, update_drive, update_config and discontinue_drive
\* requests over one behaviour.
MaxAdmin == 2
\* Largest count in a field of a retention policy.
MaxKeep == 2
\* Longest label of the short labels given to sanitize_label.
MaxLabelLen == 3
\* Most characters before and after the letters of a label at the cap.
MaxPad == 2

Jobs == 1..MaxJobs
Restores == 1..MaxRestores
Admins == 1..MaxAdmin

\* ---------------------------------------------------------------- world
\* Device nodes of the removable partitions, and the drive identity stored
\* in the marker file of each medium.
Devs == {"sdb1", "sdc1"}
Drives == {"d1", "d2"}
None == "None"

VARIABLES
    \* --- AgentRuntimeState (state.rs)
    config,                 \* AgentConfig: trusted_drives and the policy flags
    drive_status,           \* DriveStatus
    last_run,               \* Option<RunResult>
    running_drive_ids,      \* HashSet<String>
    backup_progress,        \* HashMap<String, BackupProgress>
    running_cancel_tokens,  \* HashMap<String, CancellationToken>
    restore_drive_id,       \* Option<String>
    restore_cancel_token,   \* Option<CancellationToken>
    \* --- collaborators
    keychain,               \* drive ids with a passphrase in the credential store
    cancelled,              \* cancellation tokens that have been raised
    \* --- hardware and operating system
    plugged,                \* device nodes physically present
    mounted,                \* device nodes with an entry in the mount table
    marker,                 \* drive_id in .aegis/drive.json on each medium
    events,                 \* udev events queued for the watcher loop
    hotplugs,               \* add events so far
    \* --- tasks
    watcher,                \* the watcher loop: position and locals
    job,                    \* backup tasks: request, run_backup, cleanup
    progress_rx,            \* per run: the mpsc channel of progress reports
    restore,                \* restore_snapshot requests
    \* --- engine
    child,                  \* per run: the engine subprocess of the current call
    \* --- media and their administration
    medium,                 \* per device: the rest of the marker, the repository
    admin,                  \* setup, update and discontinue requests
    wiped,                  \* the invocations of the secure wipe helper
    \* --- retention
    policy,                 \* the RetentionPolicy to_forget_args is called on
    forget_args,            \* what the call returned
    \* --- calls of the label, marker and device helpers
    label_call,             \* sanitize_label: the string given, what came back
    marker_call,            \* write_marker, then read_marker, on one mount
    mount_call,             \* devices::mount_partition: position and locals
    format_call             \* devices::format_partition_exfat: the same

vars == <<config, drive_status, last_run, running_drive_ids, backup_progress,
          running_cancel_tokens, restore_drive_id, restore_cancel_token,
          keychain, cancelled, plugged, mounted, marker, events, hotplugs,
          watcher, job, progress_rx, restore, child, medium, admin, wiped,
          policy, forget_args, label_call, marker_call, mount_call,
          format_call>>

runtime == <<drive_status, last_run, running_drive_ids, backup_progress,
             running_cancel_tokens, restore_drive_id, restore_cancel_token>>
hardware == <<plugged, mounted, marker, events, hotplugs>>
\* What the watcher, the backup tasks and the restore requests above never
\* write.
helpers == <<label_call, marker_call, mount_call, format_call>>
extra == <<child, medium, admin, wiped, policy, forget_args, helpers>>

\* ---------------------------------------------------------------- helpers
\* HashMap::insert and HashMap::remove on a map kept as a function.
MapInsert(m, k, v) == [x \in (DOMAIN m) \cup {k} |-> IF x = k THEN v ELSE m[x]]
MapRemove(m, k) == [x \in (DOMAIN m) \ {k} |-> m[x]]

\* A cancellation token is named by the operation that created it.
BackupToken(j) == <<"backup", j>>
RestoreToken(r) == <<"restore", r>>
NoToken == <<"none", 0>>

\* The mount point of a device node; one mount point per device node.
MountPathOf(dev) == dev

NoRun == [status |-> None, phase |-> None, message |-> None,
          interrupted |-> FALSE, snapshot_id |-> 0, finished |-> FALSE,
          run |-> 0]

Disconnected == [connected |-> FALSE, trusted |-> FALSE, drive_id |-> None,
                 label |-> << >>, mount_path |-> None, devnode |-> None]

IdleWatcher == [pc |-> "idle", devnode |-> None, mount_path |-> None,
                drive_id |-> None, label |-> << >>, trusted |-> FALSE,
                auto |-> FALSE, remember |-> FALSE]

IdleJob == [pc |-> "idle", drive |-> None, mount |-> None, known |-> FALSE,
            init |-> FALSE, repo_id |-> None, marker |-> None,
            may_cache |-> FALSE,
            quick_verify |-> FALSE, deep_verify |-> FALSE, retention |-> FALSE,
            emitted |-> 0,
            status |-> None, message |-> None, interrupted |-> FALSE,
            snapshot_id |-> 0, response |-> None,
            removed |-> FALSE, quick_failed |-> FALSE, deep_ran |-> FALSE,
            phases |-> << >>, backup_step |-> None, deep_failed |-> FALSE,
            prune_failed |-> FALSE, sources |-> << >>]

IdleRestore == [pc |-> "idle", drive |-> None, outcome |-> None, response |-> None]

\* What is recorded of the last engine call that returned to run_backup:
\* raised says the run's token was raised before the subprocess exited,
\* during that it was raised while the subprocess was running.
NoReturn == [call |-> None, raised |-> FALSE, during |-> FALSE,
             result |-> None, killed |-> FALSE]

\* No engine subprocess (tokio::process::Child) is alive for the run.
NoChild == [call |-> None, proc |-> "none", ok |-> FALSE, at |-> None,
            pre |-> FALSE, raised |-> FALSE, ret |-> NoReturn]

\* A BackupSource (config.rs 29-34) with a path under the home directory.
Documents == [label |-> "Documents", path |-> <<"~", "Documents">>]

\* TrustedDrive (config.rs 37-53) as setup_drive builds it (ipc.rs 502-511);
\* an absent label is the empty string, an absent repository id is None;
\* backup_sources is the set of the drive's own source list, empty when
\* the drive has none (Option::None).
TrustedDrive(label, repository_id) ==
    [label |-> label, repository_id |-> repository_id,
     last_backup_epoch |-> 0, last_backup_snapshot_id |-> 0,
     backup_sources |-> {}]

\* The identifier restic init gives the repository of a medium.
RepoIdOf(dev) == IF dev = "sdb1" THEN "r1" ELSE "r2"

\* The record of drive d1, paired earlier under the name "a".
NewTrustedDrive == TrustedDrive(<<"a">>, "r1")

\* The fields of DriveMarker (drive.rs 11-16) other than drive_id, and the
\* id in the config file of the restic repository on the medium (None when
\* the repository was never initialised).
Medium(label, repository_id, repo) ==
    [created_epoch |-> 1, label |-> label, repository_id |-> repository_id,
     repo |-> repo]

\* A medium that was paired and initialised earlier.
PairedMedium(dev) ==
    Medium(IF dev = "sdb1" THEN <<"a">> ELSE <<"c">>, RepoIdOf(dev),
           RepoIdOf(dev))

BlankMedium == [created_epoch |-> 0, label |-> << >>, repository_id |-> None,
                repo |-> None]

IdleAdmin == [pc |-> "idle", op |-> None, dev |-> None, drive_id |-> None,
              label |-> << >>, wipe |-> FALSE, remember |-> FALSE,
              paranoid |-> FALSE,
              marker |-> [drive_id |-> None, created_epoch |-> 0,
                          label |-> << >>, repository_id |-> None],
              repo_id |-> None, expected |-> << >>, connected |-> FALSE,
              unmount_ok |-> FALSE, response |-> None]

\* read_marker's Ok(None): there is no marker file (drive.rs 38-40).
NoMarker == [drive_id |-> None, created_epoch |-> 0, label |-> << >>,
             repository_id |-> None]

\* ---------------------------------------------------------------- Init
\* AgentRuntimeState::new (state.rs 82-100) over a loaded configuration
\* (AgentConfig::load, config.rs 104-128) in which drive d1 was paired
\* earlier; nothing is plugged in. The three policy flags of the pipeline
\* and the drives with a passphrase in the credential store are given.
InitFrom(trusted, sources, auto, qv, dv, ret, cached, present, markers, media) ==
    /\ config = [trusted_drives |-> trusted,
                 backup_sources |-> sources,
                 quick_verify |-> qv, deep_verify |-> dv,
                 retention_enabled |-> ret,
                 auto_backup_on_insert |-> auto,
                 remember_passphrase |-> TRUE,
                 paranoid_mode |-> FALSE]
    /\ drive_status = Disconnected
    /\ last_run = NoRun
    /\ running_drive_ids = {}
    /\ backup_progress = << >>
    /\ running_cancel_tokens = << >>
    /\ restore_drive_id = None
    /\ restore_cancel_token = NoToken
    /\ keychain = cached
    /\ cancelled = {}
    /\ plugged = present
    /\ mounted = present
    /\ marker = markers
    /\ events = << >>
    /\ hotplugs = 0
    /\ watcher = IdleWatcher
    /\ job = [j \in Jobs |-> IdleJob]
    /\ progress_rx = [j \in Jobs |-> << >>]
    /\ restore = [r \in Restores |-> IdleRestore]
    /\ child = [j \in Jobs |-> NoChild]
    /\ medium = media
    /\ admin = [a \in Admins |-> IdleAdmin]
    /\ wiped = {}

\* The same with one global backup source.
InitState(trusted, qv, dv, ret, cached, present, markers, media) ==
    InitFrom(trusted, <<Documents>>, TRUE, qv, dv, ret, cached, present,
             markers, media)

\* RetentionPolicy::default (retention.rs 14-26)
DefaultPolicy == [enabled |-> FALSE, keep_last |-> 0, keep_daily |-> 0,
                  keep_weekly |-> 0, keep_monthly |-> 0, keep_yearly |-> 0,
                  min_snapshots |-> 3]

\* to_forget_args has not been called.
NotCalled == [called |-> FALSE, args |-> << >>]

\* No helper is being called; s is the string sanitize_label will be given.
NoCalls(s) ==
    /\ label_call = [input |-> s, outputs |-> << >>]
    /\ marker_call = [pc |-> "idle", dev |-> None, written |-> NoMarker,
                      read |-> NoMarker]
    /\ mount_call = [pc |-> "idle", dev |-> None, attempt |-> 0, log |-> << >>,
                     result |-> None]
    /\ format_call = [pc |-> "idle", dev |-> None, attempt |-> 0,
                      tool |-> None, log |-> << >>, result |-> None]

InitOver(trusted, qv, dv, ret, cached, present, markers, media) ==
    /\ InitState(trusted, qv, dv, ret, cached, present, markers, media)
    /\ policy = DefaultPolicy
    /\ forget_args = NotCalled
    /\ NoCalls(<< >>)

\* Drive d1 was paired earlier and nothing is plugged in; both media carry
\* a marker and a repository.
InitWith(qv, dv, ret, cached) ==
    InitOver([d \in {"d1"} |-> NewTrustedDrive], qv, dv, ret, cached, {},
             [dev \in Devs |-> IF dev = "sdb1" THEN "d1" ELSE "d2"],
             [dev \in Devs |-> PairedMedium(dev)])

\* Any setting of quick_verify, deep_verify and retention.enabled.
Init ==
    \E qv \in BOOLEAN, dv \in BOOLEAN, ret \in BOOLEAN :
       InitWith(qv, dv, ret, {"d1"})

\* Verification and retention switched off.
InitPlain == InitWith(FALSE, FALSE, FALSE, {"d1"})

\* Every phase of the pipeline switched on.
InitFull == InitWith(TRUE, TRUE, TRUE, {"d1"})

\* No cached passphrase: the watcher never starts a backup by itself.
InitManual == InitWith(FALSE, FALSE, FALSE, {})

\* No drive is trusted; both media are mounted and carry a marker.
InitMounted ==
    InitOver(<< >>, FALSE, FALSE, FALSE, {}, Devs,
             [dev \in Devs |-> IF dev = "sdb1" THEN "d1" ELSE "d2"],
             [dev \in Devs |-> PairedMedium(dev)])

\* ------------------------------------------------- hardware, udev, mounts
\* A medium is plugged in: udev reports Add for its device node
\* (monitor_usb, usb.rs 131-134).
Plug(dev) ==
    /\ dev \notin plugged
    /\ hotplugs < MaxHotplug
    /\ plugged' = plugged \cup {dev}
    /\ hotplugs' = hotplugs + 1
    /\ events' = Append(events, <<"Added", dev>>)
    /\ UNCHANGED <<mounted, marker>>
    /\ UNCHANGED <<config, runtime, keychain, cancelled, watcher, job,
                   progress_rx, restore>>
    /\ UNCHANGED extra

\* The desktop (or mount_drive) mounts the partition.
Mount(dev) ==
    /\ dev \in plugged
    /\ dev \notin mounted
    /\ mounted' = mounted \cup {dev}
    /\ UNCHANGED <<plugged, marker, events, hotplugs>>
    /\ UNCHANGED <<config, runtime, keychain, cancelled, watcher, job,
                   progress_rx, restore>>
    /\ UNCHANGED extra

\* The medium is pulled out: udev reports Remove (usb.rs 135-138). The
\* entry in /proc/mounts may outlive the device for a while.
Unplug(dev) ==
    /\ dev \in plugged
    /\ plugged' = plugged \ {dev}
    /\ events' = Append(events, <<"Removed", dev>>)
    /\ UNCHANGED <<mounted, marker, hotplugs>>
    /\ UNCHANGED <<config, runtime, keychain, cancelled, watcher, job,
                   progress_rx, restore>>
    /\ UNCHANGED extra

\* The mount table entry of a device disappears (unmount, eject, or the
\* clean-up of the stale mount of a device that is gone).
Unmount(dev) ==
    /\ dev \in mounted
    /\ mounted' = mounted \ {dev}
    /\ UNCHANGED <<plugged, marker, events, hotplugs>>
    /\ UNCHANGED <<config, runtime, keychain, cancelled, watcher, job,
                   progress_rx, restore>>
    /\ UNCHANGED extra

\* find_mount_for_device (usb.rs 425-434)
find_mount_for_device(dev) == IF dev \in mounted THEN MountPathOf(dev) ELSE None

\* resolve_device_for_mount (usb.rs 436-444)
resolve_device_for_mount(mount) ==
    IF \E dev \in mounted : MountPathOf(dev) = mount
    THEN CHOOSE dev \in mounted : MountPathOf(dev) = mount
    ELSE None

\* ------------------------------------------------ labels (config.rs)
\* A label is a sequence of characters; an absent label (None) is the empty
\* sequence. The characters are two letters in both cases, the space, the
\* tab (white space and a control character at once) and "^" for a control
\* character that is not white space.
Whitespace == {" ", "\t"}
ControlChars == {"^", "\t"}

\* LABEL_MAX_LEN (config.rs 11)
LABEL_MAX_LEN == 512

\* str::trim
RECURSIVE trim_start(_)
trim_start(s) ==
    IF s # << >> /\ Head(s) \in Whitespace THEN trim_start(Tail(s)) ELSE s

RECURSIVE trim_end(_)
trim_end(s) ==
    IF s # << >> /\ s[Len(s)] \in Whitespace
    THEN trim_end(SubSeq(s, 1, Len(s) - 1))
    ELSE s

trim(s) == trim_end(trim_start(s))

\* str::to_lowercase
RECURSIVE to_lowercase(_)
to_lowercase(s) ==
    IF s = << >> THEN << >>
    ELSE <<CASE Head(s) = "A" -> "a"
             [] Head(s) = "C" -> "c"
             [] OTHER -> Head(s)>> \o to_lowercase(Tail(s))

\* A sanitize_label without the second trim.
sanitize_label_NoSecondTrim(s) ==
    LET kept == SelectSeq(trim(s), LAMBDA c : c \notin ControlChars)
    IN SubSeq(kept, 1, IF Len(kept) < LABEL_MAX_LEN THEN Len(kept)
                       ELSE LABEL_MAX_LEN)

\* A sanitize_label that keeps every character.
sanitize_label_NoCap(s) ==
    trim(SelectSeq(trim(s), LAMBDA c : c \notin ControlChars))

\* sanitize_label (config.rs 14-27): trim, drop the control characters
\* (char::is_control), keep at most LABEL_MAX_LEN characters, trim again;
\* None when nothing is left.
sanitize_label(s) ==
    LET t == trim(s)
        kept == SelectSeq(t, LAMBDA c : c \notin ControlChars)
        out == SubSeq(kept, 1, IF Len(kept) < LABEL_MAX_LEN THEN Len(kept)
                               ELSE LABEL_MAX_LEN)
    IN trim(out)

\* AgentConfig::label_exists (config.rs 183-199)
label_exists(cfg, label, exclude_drive_id) ==
    LET label_lower == to_lowercase(trim(label))
    IN /\ label_lower # << >>
       /\ \E id \in DOMAIN cfg.trusted_drives :
             /\ id # exclude_drive_id
             /\ cfg.trusted_drives[id].label # << >>
             /\ to_lowercase(trim(cfg.trusted_drives[id].label)) = label_lower

\* ---------------------------------------------------------------- watcher
\* The loop of LinuxWatcher::run (usb.rs 69-82) handles one event at a time.
\* The startup scans (usb.rs 156-226) call handle_added for the devices that
\* are already present, which is the Add event of a device plugged before
\* the loop starts.

\* read_marker (drive.rs 36-46) on the mount of dev: the marker's drive_id,
\* None when there is no marker file, "Err" when the file cannot be read.
\* Reading from the stale mount of a device that is gone gives any of them.
MarkerReads(dev) ==
    IF dev \in plugged THEN {marker[dev]} ELSE {marker[dev], None, "Err"}

\* handle_added (usb.rs 231-247): wait_for_mount, then read_marker, which
\* gives the label sanitized (drive.rs 36-46).
HandleAdded_Probe ==
    /\ watcher.pc = "idle"
    /\ events # << >>
    /\ Head(events)[1] = "Added"
    /\ events' = Tail(events)
    /\ LET dev == Head(events)[2]
           mount == find_mount_for_device(dev)
       IN IF mount = None
          THEN watcher' = [IdleWatcher EXCEPT !.pc = "added_unmounted",
                                              !.devnode = dev]
          ELSE \E m \in MarkerReads(dev) :
                 watcher' =
                   IF m = "Err" THEN IdleWatcher
                   ELSE [IdleWatcher EXCEPT
                           !.pc = IF m = None THEN "added_nomarker"
                                  ELSE "added_trust",
                           !.devnode = dev, !.mount_path = mount,
                           !.drive_id = m,
                           !.label = IF m = None THEN << >>
                                     ELSE sanitize_label(medium[dev].label)]
    /\ UNCHANGED <<plugged, mounted, marker, hotplugs>>
    /\ UNCHANGED <<config, runtime, keychain, cancelled, job, progress_rx,
                   restore>>
    /\ UNCHANGED extra

\* handle_added (usb.rs 234-244): no mount appeared.
HandleAdded_Unmounted ==
    /\ watcher.pc = "added_unmounted"
    /\ drive_status' = [connected |-> TRUE, trusted |-> FALSE,
                        drive_id |-> None, label |-> << >>,
                        mount_path |-> None, devnode |-> watcher.devnode]
    /\ watcher' = IdleWatcher
    /\ UNCHANGED <<last_run, running_drive_ids, backup_progress,
                   running_cancel_tokens, restore_drive_id,
                   restore_cancel_token>>
    /\ UNCHANGED <<config, keychain, cancelled, hardware, job, progress_rx,
                   restore>>
    /\ UNCHANGED extra

\* handle_added (usb.rs 278-291): mounted, no marker.
HandleAdded_NoMarker ==
    /\ watcher.pc = "added_nomarker"
    /\ drive_status' = [connected |-> TRUE, trusted |-> FALSE,
                        drive_id |-> None, label |-> << >>,
                        mount_path |-> watcher.mount_path,
                        devnode |-> watcher.devnode]
    /\ watcher' = IdleWatcher
    /\ UNCHANGED <<last_run, running_drive_ids, backup_progress,
                   running_cancel_tokens, restore_drive_id,
                   restore_cancel_token>>
    /\ UNCHANGED <<config, keychain, cancelled, hardware, job, progress_rx,
                   restore>>
    /\ UNCHANGED extra

\* handle_added (usb.rs 249-252): the trust lookup, under a read lock.
HandleAdded_Trust ==
    /\ watcher.pc = "added_trust"
    /\ watcher' = [watcher EXCEPT
                     !.pc = "added_write",
                     !.trusted = watcher.drive_id \in DOMAIN config.trusted_drives]
    /\ UNCHANGED <<config, runtime, keychain, cancelled, hardware, job,
                   progress_rx, restore>>
    /\ UNCHANGED extra

\* handle_added (usb.rs 260-277): the status is written under the write
\* lock; update_last_seen touches only last_seen_epoch, which is not kept.
HandleAdded_Write ==
    /\ watcher.pc = "added_write"
    /\ drive_status' = [connected |-> TRUE, trusted |-> watcher.trusted,
                        drive_id |-> watcher.drive_id,
                        label |-> watcher.label,
                        mount_path |-> watcher.mount_path,
                        devnode |-> watcher.devnode]
    /\ watcher' = IF watcher.trusted
                  THEN [watcher EXCEPT !.pc = "auto_config"]
                  ELSE IdleWatcher
    /\ UNCHANGED <<last_run, running_drive_ids, backup_progress,
                   running_cancel_tokens, restore_drive_id,
                   restore_cancel_token>>
    /\ UNCHANGED <<config, keychain, cancelled, hardware, job, progress_rx,
                   restore>>
    /\ UNCHANGED extra

\* attempt_auto_backup (usb.rs 357): the configuration is cloned.
AttemptAutoBackup_Config ==
    /\ watcher.pc = "auto_config"
    /\ watcher' = [watcher EXCEPT
                     !.pc = "auto_check",
                     !.auto = config.auto_backup_on_insert
                              /\ ~config.paranoid_mode,
                     !.remember = config.remember_passphrase]
    /\ UNCHANGED <<config, runtime, keychain, cancelled, hardware, job,
                   progress_rx, restore>>
    /\ UNCHANGED extra

\* attempt_auto_backup (usb.rs 358-388): the already-running check under a
\* read lock, the policy flags of the clone, the credential store.
AttemptAutoBackup_Check ==
    /\ watcher.pc = "auto_check"
    /\ watcher' =
         IF /\ watcher.drive_id \notin running_drive_ids
            /\ watcher.auto
            /\ watcher.remember
            /\ watcher.drive_id \in keychain
         THEN [watcher EXCEPT !.pc = "auto_insert"]
         ELSE IdleWatcher
    /\ UNCHANGED <<config, runtime, keychain, cancelled, hardware, job,
                   progress_rx, restore>>
    /\ UNCHANGED extra

\* attempt_auto_backup (usb.rs 390-408): insert under the write lock and
\* spawn the task that runs run_backup and then cleans up.
AttemptAutoBackup_Insert(j) ==
    /\ watcher.pc = "auto_insert"
    /\ job[j].pc = "idle"
    /\ running_drive_ids' = running_drive_ids \cup {watcher.drive_id}
    /\ job' = [job EXCEPT ![j] = [IdleJob EXCEPT
                                    !.pc = "rb_start",
                                    !.drive = watcher.drive_id,
                                    !.mount = watcher.mount_path]]
    /\ watcher' = IdleWatcher
    /\ UNCHANGED <<drive_status, last_run, backup_progress,
                   running_cancel_tokens, restore_drive_id,
                   restore_cancel_token>>
    /\ UNCHANGED <<config, keychain, cancelled, hardware, progress_rx, restore>>
    /\ UNCHANGED extra

\* The positions of a task at which run_backup has started and has not yet
\* entered the code that builds its final RunResult.
RunningPcs == {"rb_start", "rb_token", "rb_config", "rb_backup", "rb_quick",
               "rb_deep", "rb_prune", "rb_err"}

\* handle_removed (usb.rs 297-312): under a read lock, the event is ignored
\* when the recorded mount still resolves to another device node.
HandleRemoved_Read ==
    /\ watcher.pc = "idle"
    /\ events # << >>
    /\ Head(events)[1] = "Removed"
    /\ events' = Tail(events)
    /\ LET dev == Head(events)[2]
           device == IF drive_status.mount_path = None THEN None
                     ELSE resolve_device_for_mount(drive_status.mount_path)
       IN watcher' =
            IF device # None /\ device # dev
            THEN IdleWatcher
            ELSE [IdleWatcher EXCEPT !.pc = "removed_write", !.devnode = dev,
                                     !.drive_id = drive_status.drive_id]
    /\ UNCHANGED <<plugged, mounted, marker, hotplugs>>
    /\ UNCHANGED <<config, runtime, keychain, cancelled, job, progress_rx,
                   restore>>
    /\ UNCHANGED extra

\* handle_removed (usb.rs 319-353): under the write lock.
HandleRemoved_Write ==
    /\ watcher.pc = "removed_write"
    /\ LET id == watcher.drive_id
           was_running == id # None /\ id \in running_drive_ids
           restoring == id # None /\ restore_drive_id = id
       IN /\ drive_status' = Disconnected
          /\ running_cancel_tokens' =
               IF id # None THEN MapRemove(running_cancel_tokens, id)
               ELSE running_cancel_tokens
          /\ cancelled' = cancelled
               \cup (IF id # None /\ id \in DOMAIN running_cancel_tokens
                     THEN {running_cancel_tokens[id]} ELSE {})
               \cup (IF restoring /\ restore_cancel_token # NoToken
                     THEN {restore_cancel_token} ELSE {})
          /\ restore_drive_id' = IF restoring THEN None ELSE restore_drive_id
          /\ restore_cancel_token' =
               IF restoring THEN NoToken ELSE restore_cancel_token
          /\ running_drive_ids' =
               IF id # None THEN running_drive_ids \ {id} ELSE running_drive_ids
          /\ backup_progress' =
               IF was_running THEN MapRemove(backup_progress, id)
               ELSE backup_progress
          /\ last_run' =
               IF was_running
               THEN [status |-> "Failed", phase |-> "Completed",
                     message |-> "Interrupted (drive disconnected)",
                     interrupted |-> TRUE, snapshot_id |-> 0,
                     finished |-> TRUE, run |-> 0]
               ELSE last_run
          /\ job' = [j \in Jobs |->
                       IF id # None /\ job[j].drive = id
                          /\ job[j].pc \in RunningPcs
                       THEN [job[j] EXCEPT !.removed = TRUE]
                       ELSE job[j]]
    /\ watcher' = IdleWatcher
    /\ UNCHANGED <<config, keychain, hardware, progress_rx, restore>>
    /\ UNCHANGED extra

\* ------------------------------------------------ start_backup (ipc.rs)
\* Task slots are taken in order; which slot a task gets has no meaning.
FreeSlot(j) == job[j].pc = "idle" /\ \A k \in Jobs : k < j => job[k].pc # "idle"

Reject(j, why) ==
    [job EXCEPT ![j] = [IdleJob EXCEPT !.pc = "done", !.drive = job[j].drive,
                                       !.response = why]]

\* start_backup (ipc.rs 731): a request for drive d arrives and the
\* configuration is cloned under a read lock.
StartBackup_Config(j, d) ==
    /\ FreeSlot(j)
    /\ job' = [job EXCEPT ![j] = [IdleJob EXCEPT
                 !.pc = "sb_check", !.drive = d,
                 !.known = d \in DOMAIN config.trusted_drives,
                 !.may_cache = config.remember_passphrase
                               /\ ~config.paranoid_mode]]
    /\ UNCHANGED <<config, runtime, keychain, cancelled, hardware, watcher,
                   progress_rx, restore>>
    /\ UNCHANGED extra

\* start_backup without its already-running check.
StartBackup_Check_NoConflict(j) ==
    /\ job[j].pc = "sb_check"
    /\ \E provided \in BOOLEAN :
         job' =
           IF ~job[j].known
           THEN Reject(j, "unknown drive")
           ELSE IF ~provided /\ ~(job[j].may_cache /\ job[j].drive \in keychain)
           THEN Reject(j, "passphrase required")
           ELSE [job EXCEPT ![j].pc = "sb_mounted", ![j].known = FALSE,
                            ![j].may_cache = FALSE]
    /\ UNCHANGED <<config, runtime, keychain, cancelled, hardware, watcher,
                   progress_rx, restore>>
    /\ UNCHANGED extra

\* start_backup (ipc.rs 732-741): the already-running check under a read
\* lock, then the lookup in the clone and resolve_passphrase (938-955);
\* provided says whether the request carries a non-empty passphrase.
StartBackup_Check(j) ==
    /\ job[j].pc = "sb_check"
    /\ \E provided \in BOOLEAN :
         job' =
           IF job[j].drive \in running_drive_ids
           THEN Reject(j, "backup already running for this drive")
           ELSE IF ~job[j].known
           THEN Reject(j, "unknown drive")
           ELSE IF ~provided /\ ~(job[j].may_cache /\ job[j].drive \in keychain)
           THEN Reject(j, "passphrase required")
           ELSE [job EXCEPT ![j].pc = "sb_mounted", ![j].known = FALSE,
                            ![j].may_cache = FALSE]
    /\ UNCHANGED <<config, runtime, keychain, cancelled, hardware, watcher,
                   progress_rx, restore>>
    /\ UNCHANGED extra

\* ensure_mounted_drive (ipc.rs 923-936): the mount path of the connected
\* trusted drive, or the reason there is none.
ensure_mounted_drive(d) ==
    IF ~drive_status.connected \/ ~drive_status.trusted
    THEN [ok |-> FALSE, value |-> "trusted drive not connected"]
    ELSE IF drive_status.drive_id # d
    THEN [ok |-> FALSE, value |-> "drive mismatch"]
    ELSE IF drive_status.mount_path = None
    THEN [ok |-> FALSE, value |-> "drive not mounted"]
    ELSE [ok |-> TRUE, value |-> drive_status.mount_path]

\* start_backup (ipc.rs 742)
StartBackup_EnsureMounted(j) ==
    /\ job[j].pc = "sb_mounted"
    /\ LET m == ensure_mounted_drive(job[j].drive)
       IN job' = IF m.ok
                 THEN [job EXCEPT ![j].pc = "sb_insert", ![j].mount = m.value]
                 ELSE Reject(j, m.value)
    /\ UNCHANGED <<config, runtime, keychain, cancelled, hardware, watcher,
                   progress_rx, restore>>
    /\ UNCHANGED extra

\* start_backup (ipc.rs 744-764): insert under the write lock, spawn the
\* task, answer "started".
StartBackup_Insert(j) ==
    /\ job[j].pc = "sb_insert"
    /\ running_drive_ids' = running_drive_ids \cup {job[j].drive}
    /\ job' = [job EXCEPT ![j].pc = "rb_start", ![j].response = "started"]
    /\ UNCHANGED <<drive_status, last_run, backup_progress,
                   running_cancel_tokens, restore_drive_id,
                   restore_cancel_token>>
    /\ UNCHANGED <<config, keychain, cancelled, hardware, watcher, progress_rx,
                   restore>>
    /\ UNCHANGED extra

\* ------------------------------------------------- run_backup (backup.rs)
\* A step of a task is one acquisition of the state lock together with the
\* lock-free code that precedes it: the end of a subprocess and the
\* branching on its result touch only the task's own locals.

\* A set_phase that stores the status the run has reached so far.
set_phase_Success(j, phase, message, snapshot_id) ==
    [status |-> IF phase = "BackingUp" THEN "Partial" ELSE "Success",
     phase |-> phase, message |-> message,
     interrupted |-> FALSE, snapshot_id |-> snapshot_id, finished |-> FALSE,
     run |-> j]

\* set_phase (backup.rs 308-330) as run_backup calls it, always with
\* RunStatus::Partial and interrupted = false; the run's number stands for
\* its started_epoch, finished says whether finished_epoch is present.
set_phase(j, phase, message, snapshot_id) ==
    [status |-> "Partial", phase |-> phase, message |-> message,
     interrupted |-> FALSE, snapshot_id |-> snapshot_id, finished |-> FALSE,
     run |-> j]

\* run_backup (backup.rs 28-38)
RunBackup_Start(j) ==
    /\ job[j].pc = "rb_start"
    /\ last_run' = set_phase(j, "BackingUp", "Starting backup", 0)
    /\ job' = [job EXCEPT ![j].pc = "rb_token",
                          ![j].phases = Append(@, "BackingUp")]
    /\ UNCHANGED <<drive_status, running_drive_ids, backup_progress,
                   running_cancel_tokens, restore_drive_id,
                   restore_cancel_token>>
    /\ UNCHANGED <<config, keychain, cancelled, hardware, watcher, progress_rx,
                   restore>>
    /\ UNCHANGED extra

\* run_backup (backup.rs 51-55): a fresh token replaces whatever the map
\* holds for the drive.
RunBackup_Token(j) ==
    /\ job[j].pc = "rb_token"
    /\ running_cancel_tokens' =
         MapInsert(running_cancel_tokens, job[j].drive, BackupToken(j))
    /\ job' = [job EXCEPT ![j].pc = "rb_config"]
    /\ UNCHANGED <<drive_status, last_run, running_drive_ids, backup_progress,
                   restore_drive_id, restore_cancel_token>>
    /\ UNCHANGED <<config, keychain, cancelled, hardware, watcher, progress_rx,
                   restore>>
    /\ UNCHANGED extra

\* run_backup (backup.rs 66): the config file of the repository is looked
\* for under the run's mount path.
repo_initialized(j) == medium[job[j].mount].repo # None

\* AgentConfig::backup_sources_for_drive (config.rs 174-180): the drive's
\* own list when it has one, else the global list.
backup_sources_for_drive(cfg, d) ==
    IF d \in DOMAIN cfg.trusted_drives
       /\ cfg.trusted_drives[d].backup_sources # {}
    THEN CHOOSE l \in cfg.trusted_drives[d].backup_sources : TRUE
    ELSE cfg.backup_sources

\* expand_sources (backup.rs 272-287): the path of each source, with a
\* leading "~/" replaced by the home directory.
expand_sources(cfg, d) ==
    LET list == backup_sources_for_drive(cfg, d)
    IN [i \in 1..Len(list) |->
          IF Head(list[i].path) = "~"
          THEN <<"home", "user">> \o Tail(list[i].path)
          ELSE list[i].path]

\* A run that starts the backup step whatever the sources are.
SourcesChecked_Skip(sources) == "rb_backup"

\* run_backup (backup.rs 81-85): with no source to back up the run ends
\* with an error before the backup subprocess is spawned.
SourcesChecked(sources) == IF sources = << >> THEN "rb_err" ELSE "rb_backup"

\* run_backup (backup.rs 58-129): the configuration is cloned; an unknown
\* drive ends the run with an error; a medium without repository is
\* initialised first; otherwise the engine's backup subprocess and the
\* progress forwarder are spawned.
RunBackup_Config(j) ==
    /\ job[j].pc = "rb_config"
    /\ job' =
         IF job[j].drive \notin DOMAIN config.trusted_drives
         THEN [job EXCEPT ![j].pc = "rb_err"]
         ELSE [job EXCEPT ![j].pc =
                             IF repo_initialized(j)
                             THEN SourcesChecked(
                                     expand_sources(config, job[j].drive))
                             ELSE "rb_init",
                          ![j].sources = expand_sources(config, job[j].drive),
                          ![j].init = ~repo_initialized(j),
                          ![j].quick_verify = config.quick_verify,
                          ![j].deep_verify = config.deep_verify,
                          ![j].retention = config.retention_enabled]
    /\ UNCHANGED <<config, runtime, keychain, cancelled, hardware, watcher,
                   progress_rx, restore>>
    /\ UNCHANGED extra

\* backup_with_progress (restic.rs 238-253): a status line is read and the
\* report is sent into the channel.  A report is numbered within its run;
\* seen tells how many status lines each run had emitted when this one was
\* read.
Engine_Status(j) ==
    /\ job[j].pc = "rb_backup"
    /\ job[j].emitted < MaxReports
    /\ progress_rx' = [progress_rx EXCEPT
                         ![j] = Append(@,
                                  [seq |-> job[j].emitted + 1,
                                   seen |-> [k \in Jobs |->
                                               IF k = j
                                               THEN job[j].emitted + 1
                                               ELSE job[k].emitted]])]
    /\ job' = [job EXCEPT ![j].emitted = @ + 1]
    /\ UNCHANGED <<config, runtime, keychain, cancelled, hardware, watcher,
                   restore>>
    /\ UNCHANGED extra

\* run_backup (backup.rs 110-129): the forwarder task takes one report.
Forwarder(j) ==
    /\ progress_rx[j] # << >>
    /\ progress_rx' = [progress_rx EXCEPT ![j] = Tail(@)]
    /\ backup_progress' =
         MapInsert(backup_progress, job[j].drive,
                   [run |-> j, seq |-> Head(progress_rx[j]).seq,
                    seen |-> Head(progress_rx[j]).seen])
    /\ last_run' = IF last_run = NoRun THEN last_run
                   ELSE [last_run EXCEPT !.message = "Backing up"]
    /\ UNCHANGED <<drive_status, running_drive_ids, running_cancel_tokens,
                   restore_drive_id, restore_cancel_token>>
    /\ UNCHANGED <<config, keychain, cancelled, hardware, watcher, job, restore>>
    /\ UNCHANGED extra

\* The connectivity test of run_backup (backup.rs 192-195, 242-245).
drive_connected(d) == drive_status.connected /\ drive_status.drive_id = d

\* The final result without the connectivity re-check.
Finalize_NoRecheck(q) == [q EXCEPT !.pc = "rb_persist"]

\* run_backup (backup.rs 192-223): the connectivity re-check and the final
\* RunResult of the Ok arm, built from the locals q.
Finalize(q) ==
    IF drive_connected(q.drive)
    THEN [q EXCEPT !.pc = "rb_persist"]
    ELSE [q EXCEPT !.pc = "rb_persist",
                   !.interrupted = TRUE,
                   !.status = "Failed",
                   !.message = "Interrupted (drive disconnected)"]

\* A pipeline that prunes whatever the verification found.
AfterDeep_AlwaysPrune(q) == IF q.retention THEN "Pruning" ELSE "Completed"

\* A pipeline that verifies whatever the configuration says.
AfterBackup_AlwaysQuick(q) == "VerifyingQuick"

\* The phase that follows the backup, the quick and the deep verification
\* (backup.rs 138, 156, 174).
AfterDeep(q) ==
    IF q.status = "Success" /\ q.retention THEN "Pruning" ELSE "Completed"

AfterQuick(q) == IF q.deep_verify THEN "VerifyingDeep" ELSE AfterDeep(q)

AfterBackup(q) == IF q.quick_verify THEN "VerifyingQuick" ELSE AfterQuick(q)

\* The lock step that opens the next phase of task j, whose locals are q:
\* set_phase under the write lock (backup.rs 139-148, 157-166, 175-184), or
\* the connectivity re-check under a read lock (192-195).
EnterPhase(j, q, phase) ==
    /\ last_run' =
         CASE phase = "VerifyingQuick" ->
                set_phase(j, phase, "Quick verification", q.snapshot_id)
           [] phase = "VerifyingDeep" ->
                set_phase(j, phase, "Deep verification", q.snapshot_id)
           [] phase = "Pruning" ->
                set_phase(j, phase, "Applying retention", q.snapshot_id)
           [] OTHER -> last_run
    /\ job' = [job EXCEPT ![j] =
                 CASE phase = "VerifyingQuick" ->
                        [q EXCEPT !.pc = "rb_quick",
                                  !.phases = Append(@, phase)]
                   [] phase = "VerifyingDeep" ->
                        [q EXCEPT !.pc = "rb_deep",
                                  !.phases = Append(@, phase)]
                   [] phase = "Pruning" ->
                        [q EXCEPT !.pc = "rb_prune",
                                  !.phases = Append(@, phase)]
                   [] OTHER -> Finalize(q)]
    /\ UNCHANGED <<drive_status, running_drive_ids, backup_progress,
                   running_cancel_tokens, restore_drive_id,
                   restore_cancel_token>>
    /\ UNCHANGED <<config, keychain, cancelled, hardware, watcher, progress_rx,
                   restore>>

\* The ways backup_with_progress can end (restic.rs 218-287): the select
\* takes the cancellation only when the token is raised.
BackupOutcomes(j) ==
    {"ok", "failed"}
      \cup (IF BackupToken(j) \in cancelled THEN {"cancelled"} ELSE {})

\* A run that verifies the repository although the backup step failed.
backup_joined_NotFatal(j, outcome, summary) ==
    LET q == [job[j] EXCEPT
                !.status = IF outcome = "ok" THEN "Success" ELSE "Failed",
                !.message = "Backup completed",
                !.snapshot_id = IF summary THEN j ELSE 0,
                !.backup_step = IF outcome = "ok" THEN "ok" ELSE "failed"]
    IN EnterPhase(j, q, AfterBackup(q))

\* run_backup (backup.rs 131-136): the backup task is joined with the given
\* outcome; summary says whether the engine printed a summary line.
backup_joined(j, outcome, summary) ==
    IF outcome = "ok"
    THEN LET q == [job[j] EXCEPT
                     !.status = "Success",
                     !.message = "Backup completed",
                     !.snapshot_id = IF summary THEN j ELSE 0,
                     !.backup_step = "ok"]
         IN EnterPhase(j, q, AfterBackup(q))
    ELSE /\ job' = [job EXCEPT ![j].pc = "rb_err",
                               ![j].backup_step = "failed"]
         /\ UNCHANGED <<config, runtime, keychain, cancelled, hardware,
                        watcher, progress_rx, restore>>

\* The backup step with the engine call taken as one step.
RunBackup_Backup(j) ==
    /\ job[j].pc = "rb_backup"
    /\ \E outcome \in BackupOutcomes(j), summary \in BOOLEAN :
         backup_joined(j, outcome, summary)
    /\ UNCHANGED extra

\* A quick verification whose failure aborts the run.
RunBackup_Quick_Fatal(j) ==
    /\ job[j].pc = "rb_quick"
    /\ \E ok \in BOOLEAN :
         IF ok THEN EnterPhase(j, job[j], AfterQuick(job[j]))
         ELSE /\ job' = [job EXCEPT ![j].pc = "rb_err",
                                    ![j].quick_failed = TRUE]
              /\ UNCHANGED <<config, runtime, keychain, cancelled, hardware,
                             watcher, progress_rx, restore>>
    /\ UNCHANGED extra

\* run_backup (backup.rs 149-154): what follows check_quick.
quick_checked(j, ok) ==
    LET q == IF ok THEN job[j]
             ELSE [job[j] EXCEPT
                     !.status = "Partial",
                     !.message = "Backup completed, but verification failed",
                     !.quick_failed = TRUE]
    IN EnterPhase(j, q, AfterQuick(q))

\* The quick verification with the engine call taken as one step.
RunBackup_Quick(j) ==
    /\ job[j].pc = "rb_quick"
    /\ \E ok \in BOOLEAN : quick_checked(j, ok)
    /\ UNCHANGED extra

\* run_backup (backup.rs 167-172): what follows check_deep.
deep_checked(j, ok) ==
    LET q == IF ok THEN [job[j] EXCEPT !.deep_ran = TRUE]
             ELSE [job[j] EXCEPT
                     !.status = "Partial",
                     !.message =
                        "Backup completed, but deep verification failed",
                     !.deep_ran = TRUE, !.deep_failed = TRUE]
    IN EnterPhase(j, q, AfterDeep(q))

\* The deep verification with the engine call taken as one step.
RunBackup_Deep(j) ==
    /\ job[j].pc = "rb_deep"
    /\ \E ok \in BOOLEAN : deep_checked(j, ok)
    /\ UNCHANGED extra

\* run_backup (backup.rs 185-190), apply_retention (289-297): what follows
\* forget_prune.
pruned(j, ok) ==
    LET q == IF ok THEN job[j]
             ELSE [job[j] EXCEPT
                     !.status = "Partial",
                     !.message = "Backup completed, but retention failed",
                     !.prune_failed = TRUE]
    IN EnterPhase(j, q, "Completed")

\* The retention step with the engine call taken as one step.
RunBackup_Prune(j) ==
    /\ job[j].pc = "rb_prune"
    /\ \E ok \in BOOLEAN : pruned(j, ok)
    /\ UNCHANGED extra

\* AgentConfig::update_last_backup (config.rs 152-157); the run's number
\* stands for its finished_epoch.
update_last_backup(drives, d, epoch, snapshot_id) ==
    IF d \in DOMAIN drives
    THEN [drives EXCEPT ![d].last_backup_epoch = epoch,
                        ![d].last_backup_snapshot_id = snapshot_id]
    ELSE drives

\* The RunResult a task has built (backup.rs 211-222, 252-263).
ResultOf(j) ==
    [status |-> job[j].status, phase |-> "Completed",
     message |-> job[j].message, interrupted |-> job[j].interrupted,
     snapshot_id |-> job[j].snapshot_id, finished |-> TRUE, run |-> j]

\* run_backup (backup.rs 227-240): the Ok arm, under the write lock.
RunBackup_PersistOk(j) ==
    /\ job[j].pc = "rb_persist"
    /\ last_run' = ResultOf(j)
    /\ config' = [config EXCEPT
                    !.trusted_drives =
                       update_last_backup(@, job[j].drive, j,
                                          job[j].snapshot_id)]
    /\ job' = [job EXCEPT ![j].pc = "cleanup",
                          ![j].phases = Append(@, "Completed")]
    /\ UNCHANGED <<drive_status, running_drive_ids, backup_progress,
                   running_cancel_tokens, restore_drive_id,
                   restore_cancel_token>>
    /\ UNCHANGED <<keychain, cancelled, hardware, watcher, progress_rx, restore>>
    /\ UNCHANGED extra

\* run_backup (backup.rs 241-263): the Err arm builds its RunResult from
\* the connectivity at that moment.
RunBackup_Err(j) ==
    /\ job[j].pc = "rb_err"
    /\ LET interrupted == ~drive_connected(job[j].drive)
       IN job' = [job EXCEPT
                    ![j].pc = "rb_persist_err",
                    ![j].status = "Failed",
                    ![j].interrupted = interrupted,
                    ![j].snapshot_id = 0,
                    ![j].message = IF interrupted
                                   THEN "Interrupted (drive disconnected)"
                                   ELSE "Backup failed"]
    /\ UNCHANGED <<config, runtime, keychain, cancelled, hardware, watcher,
                   progress_rx, restore>>
    /\ UNCHANGED extra

\* run_backup (backup.rs 264-267)
RunBackup_PersistErr(j) ==
    /\ job[j].pc = "rb_persist_err"
    /\ last_run' = ResultOf(j)
    /\ job' = [job EXCEPT ![j].pc = "cleanup",
                          ![j].phases = Append(@, "Completed")]
    /\ UNCHANGED <<drive_status, running_drive_ids, backup_progress,
                   running_cancel_tokens, restore_drive_id,
                   restore_cancel_token>>
    /\ UNCHANGED <<config, keychain, cancelled, hardware, watcher, progress_rx,
                   restore>>
    /\ UNCHANGED extra

\* What is kept of a task that has ended: its drive, its answer, its result
\* and whether its drive was removed while it ran.
Ended(q) ==
    [IdleJob EXCEPT !.pc = "done", !.drive = q.drive, !.response = q.response,
                    !.status = q.status, !.message = q.message,
                    !.interrupted = q.interrupted,
                    !.snapshot_id = q.snapshot_id, !.removed = q.removed]

\* A clean-up that leaves the cancellation token in the map.
Cleanup_KeepsToken(j) ==
    /\ job[j].pc = "cleanup"
    /\ running_drive_ids' = running_drive_ids \ {job[j].drive}
    /\ backup_progress' = MapRemove(backup_progress, job[j].drive)
    /\ cancelled' = cancelled \ {BackupToken(j)}
    /\ job' = [job EXCEPT ![j] = Ended(job[j])]
    /\ UNCHANGED <<drive_status, last_run, running_cancel_tokens,
                   restore_drive_id, restore_cancel_token>>
    /\ UNCHANGED <<config, keychain, hardware, watcher, progress_rx, restore>>
    /\ UNCHANGED extra

\* A clean-up that leaves the drive id in running_drive_ids.
Cleanup_KeepsId(j) ==
    /\ job[j].pc = "cleanup"
    /\ backup_progress' = MapRemove(backup_progress, job[j].drive)
    /\ running_cancel_tokens' = MapRemove(running_cancel_tokens, job[j].drive)
    /\ cancelled' = cancelled \ {BackupToken(j)}
    /\ job' = [job EXCEPT ![j] = Ended(job[j])]
    /\ UNCHANGED <<drive_status, last_run, running_drive_ids, restore_drive_id,
                   restore_cancel_token>>
    /\ UNCHANGED <<config, keychain, hardware, watcher, progress_rx, restore>>
    /\ UNCHANGED extra

\* The spawned task after run_backup has returned (ipc.rs 753-758,
\* usb.rs 399-404); the task's token is dropped with it.
Cleanup(j) ==
    /\ job[j].pc = "cleanup"
    /\ running_drive_ids' = running_drive_ids \ {job[j].drive}
    /\ backup_progress' = MapRemove(backup_progress, job[j].drive)
    /\ running_cancel_tokens' = MapRemove(running_cancel_tokens, job[j].drive)
    /\ cancelled' = cancelled \ {BackupToken(j)}
    /\ job' = [job EXCEPT ![j] = Ended(job[j])]
    /\ UNCHANGED <<drive_status, last_run, restore_drive_id,
                   restore_cancel_token>>
    /\ UNCHANGED <<config, keychain, hardware, watcher, progress_rx, restore>>
    /\ UNCHANGED extra

\* -------------------------------------------- restore_snapshot (ipc.rs)
FreeRestore(r) ==
    restore[r].pc = "idle" /\ \A k \in Restores : k < r => restore[k].pc # "idle"

RejectRestore(r, why) ==
    [restore EXCEPT ![r].pc = "done", ![r].response = why]

\* restore_snapshot (ipc.rs 821-830): a request for drive d arrives, the
\* configuration is cloned and the drive looked up.
Restore_Config(r, d) ==
    /\ FreeRestore(r)
    /\ restore' =
         IF d \in DOMAIN config.trusted_drives
         THEN [restore EXCEPT ![r].pc = "rs_mounted", ![r].drive = d]
         ELSE [restore EXCEPT ![r].pc = "done", ![r].drive = d,
                              ![r].response = "unknown drive"]
    /\ UNCHANGED <<config, runtime, keychain, cancelled, hardware, watcher,
                   job, progress_rx>>
    /\ UNCHANGED extra

\* restore_snapshot (ipc.rs 832-833): ensure_mounted_drive under a read
\* lock, then resolve_passphrase.
Restore_EnsureMounted(r) ==
    /\ restore[r].pc = "rs_mounted"
    /\ \E passphrase \in BOOLEAN :
         LET m == ensure_mounted_drive(restore[r].drive)
         IN restore' =
              IF ~m.ok THEN RejectRestore(r, m.value)
              ELSE IF ~passphrase THEN RejectRestore(r, "passphrase required")
              ELSE [restore EXCEPT ![r].pc = "rs_set"]
    /\ UNCHANGED <<config, runtime, keychain, cancelled, hardware, watcher,
                   job, progress_rx>>
    /\ UNCHANGED extra

\* restore_snapshot (ipc.rs 839-844): the slot is written under the write
\* lock.
Restore_Set(r) ==
    /\ restore[r].pc = "rs_set"
    /\ restore_drive_id' = restore[r].drive
    /\ restore_cancel_token' = RestoreToken(r)
    /\ restore' = [restore EXCEPT ![r].pc = "rs_run"]
    /\ UNCHANGED <<drive_status, last_run, running_drive_ids, backup_progress,
                   running_cancel_tokens>>
    /\ UNCHANGED <<config, keychain, cancelled, hardware, watcher, job,
                   progress_rx>>
    /\ UNCHANGED extra

\* restore_cancellable, run_capture_cancellable (restic.rs 477-495): the
\* subprocess exits, or the select sees the token raised and kills it.
Restore_Run(r) ==
    /\ restore[r].pc = "rs_run"
    /\ \E outcome \in {"ok", "failed"}
                      \cup (IF RestoreToken(r) \in cancelled
                            THEN {"cancelled"} ELSE {}) :
         restore' = [restore EXCEPT ![r].pc = "rs_clear",
                                    ![r].outcome = outcome]
    /\ UNCHANGED <<config, runtime, keychain, cancelled, hardware, watcher,
                   job, progress_rx>>
    /\ UNCHANGED extra

\* restore_snapshot (ipc.rs 856-862): the slot is cleared under the write
\* lock and the result returned.
Restore_Clear(r) ==
    /\ restore[r].pc = "rs_clear"
    /\ restore_drive_id' = None
    /\ restore_cancel_token' = NoToken
    /\ restore' = [restore EXCEPT
                     ![r].pc = "done",
                     ![r].response = IF restore[r].outcome = "ok"
                                     THEN "completed" ELSE "restore failed"]
    /\ cancelled' = cancelled \ {RestoreToken(r)}
    /\ UNCHANGED <<drive_status, last_run, running_drive_ids, backup_progress,
                   running_cancel_tokens>>
    /\ UNCHANGED <<config, keychain, hardware, watcher, job, progress_rx>>
    /\ UNCHANGED extra

\* ------------------------------------------------------- specifications
\* The hardware events of one removable medium.
Hardware(dev) == Plug(dev) \/ Mount(dev) \/ Unplug(dev) \/ Unmount(dev)

\* The medium is plugged in once in the behaviour.
HardwareOnce(dev) ==
    \/ hotplugs = 0 /\ Plug(dev)
    \/ Mount(dev)
    \/ Unplug(dev)
    \/ Unmount(dev)

\* The watcher loop without the start of an automatic backup.
Watcher ==
    \/ HandleAdded_Probe
    \/ HandleAdded_Unmounted
    \/ HandleAdded_NoMarker
    \/ HandleAdded_Trust
    \/ HandleAdded_Write
    \/ AttemptAutoBackup_Config
    \/ AttemptAutoBackup_Check
    \/ HandleRemoved_Read
    \/ HandleRemoved_Write

\* A manual start_backup request handled in task slot j.
StartBackup(j) ==
    \/ \E d \in Drives : StartBackup_Config(j, d)
    \/ StartBackup_Check(j)
    \/ StartBackup_EnsureMounted(j)
    \/ StartBackup_Insert(j)

\* run_backup up to the end of the backup step, with its engine subprocess
\* and its forwarder, and from the final result to the clean-up.
RunBackup(j) ==
    \/ RunBackup_Start(j)
    \/ RunBackup_Token(j)
    \/ RunBackup_Config(j)
    \/ Engine_Status(j)
    \/ Forwarder(j)
    \/ RunBackup_Backup(j)
    \/ RunBackup_PersistOk(j)
    \/ RunBackup_Err(j)
    \/ RunBackup_PersistErr(j)
    \/ Cleanup(j)

\* The optional phases of run_backup.
RunBackup_Phases(j) ==
    \/ RunBackup_Quick(j)
    \/ RunBackup_Deep(j)
    \/ RunBackup_Prune(j)

\* A restore_snapshot request handled in slot r.
RestoreSnapshot(r) ==
    \/ \E d \in Drives : Restore_Config(r, d)
    \/ Restore_EnsureMounted(r)
    \/ Restore_Set(r)
    \/ Restore_Run(r)
    \/ Restore_Clear(r)

\* One backup task at a time in the behaviour, manual or automatic, under
\* any pipeline policy, with the medium plugged in up to MaxHotplug times.
OneJob == {j \in Jobs : \A k \in Jobs : j <= k}

Next ==
    \/ Hardware("sdb1")
    \/ Watcher
    \/ \E j \in OneJob : AttemptAutoBackup_Insert(j)
    \/ \E j \in OneJob : StartBackup(j)
    \/ \E j \in OneJob : RunBackup(j)
    \/ \E j \in OneJob : RunBackup_Phases(j)

Spec == Init /\ [][Next]_vars

\* Concurrent backup tasks, manual and automatic, for a medium that is
\* plugged in once, with verification and retention switched off.
NextRace ==
    \/ HardwareOnce("sdb1")
    \/ Watcher
    \/ \E j \in Jobs : AttemptAutoBackup_Insert(j)
    \/ \E j \in Jobs : StartBackup(j)
    \/ \E j \in Jobs : RunBackup(j)

SpecRace == InitPlain /\ [][NextRace]_vars

\* Both media come and go while at most one backup task runs, with
\* verification and retention switched off.
NextHotplug ==
    \/ \E dev \in Devs : Hardware(dev)
    \/ Watcher
    \/ \E j \in OneJob : AttemptAutoBackup_Insert(j)
    \/ \E j \in OneJob : StartBackup(j)
    \/ \E j \in OneJob : RunBackup(j)

SpecHotplug == InitPlain /\ [][NextHotplug]_vars

\* Concurrent restore requests and the watcher.
NextRestore ==
    \/ Hardware("sdb1")
    \/ Watcher
    \/ \E r \in Restores : RestoreSnapshot(r)

SpecRestore == InitManual /\ [][NextRestore]_vars

\* One backup task and concurrent restore requests for a medium that is
\* plugged in once.
NextHandles ==
    \/ HardwareOnce("sdb1")
    \/ Watcher
    \/ \E j \in OneJob : AttemptAutoBackup_Insert(j)
    \/ \E j \in OneJob : StartBackup(j)
    \/ \E j \in OneJob : RunBackup(j)
    \/ \E r \in Restores : RestoreSnapshot(r)

SpecHandles == InitPlain /\ [][NextHandles]_vars

\* The steps of the spawned task of run j that need only the scheduler, the
\* lock, or the exit of an engine subprocess.
TaskStep(j) ==
    \/ RunBackup_Start(j)
    \/ RunBackup_Token(j)
    \/ RunBackup_Config(j)
    \/ RunBackup_Backup(j)
    \/ RunBackup_Phases(j)
    \/ RunBackup_PersistOk(j)
    \/ RunBackup_Err(j)
    \/ RunBackup_PersistErr(j)
    \/ Cleanup(j)

\* One backup task, manual or automatic, for a medium that comes and goes,
\* with every phase of the pipeline switched on.
NextLive ==
    \/ Hardware("sdb1")
    \/ Watcher
    \/ \E j \in OneJob : AttemptAutoBackup_Insert(j)
    \/ \E j \in OneJob : StartBackup(j)
    \/ \E j \in OneJob : RunBackup(j)
    \/ \E j \in OneJob : RunBackup_Phases(j)

\* The runtime schedules every spawned task and grants the lock in turn
\* (tokio's RwLock is fair), and every engine subprocess exits or is killed.
SpecLive ==
    InitFull /\ [][NextLive]_vars /\ \A j \in Jobs : WF_vars(TaskStep(j))

\* ------------------------------------------- the engine subprocesses
\* The engine call run_backup makes at each position.
CallAt(pc) ==
    CASE pc = "rb_backup" -> "backup"
      [] pc = "rb_quick" -> "quick"
      [] pc = "rb_deep" -> "deep"
      [] pc = "rb_prune" -> "prune"
      [] OTHER -> None

\* The record of an engine call that has returned to run_backup.
Returned(c, result, killed) ==
    [NoChild EXCEPT !.ret = [call |-> c.call, raised |-> c.raised,
                             during |-> c.raised /\ ~c.pre,
                             result |-> result, killed |-> killed]]

\* Command::spawn (restic.rs 200, 430): the subprocess of the call starts.
Engine_Spawn(j) ==
    /\ CallAt(job[j].pc) # None
    /\ child[j].proc = "none"
    /\ child' = [child EXCEPT ![j] =
                   [@ EXCEPT !.call = CallAt(job[j].pc), !.proc = "running",
                             !.at = "select",
                             !.pre = BackupToken(j) \in cancelled,
                             !.raised = FALSE]]
    /\ UNCHANGED <<config, runtime, keychain, cancelled, hardware, watcher,
                   job, progress_rx, restore>>
    /\ UNCHANGED <<medium, admin, wiped, policy, forget_args, helpers>>

\* The backup subprocess closes its standard output before it exits.
Engine_CloseStdout(j) ==
    /\ child[j].call = "backup"
    /\ child[j].proc = "running"
    /\ child' = [child EXCEPT ![j].proc = "eof"]
    /\ UNCHANGED <<config, runtime, keychain, cancelled, hardware, watcher,
                   job, progress_rx, restore>>
    /\ UNCHANGED <<medium, admin, wiped, policy, forget_args, helpers>>

\* The subprocess exits on its own, with or without success.
Engine_Exit(j) ==
    /\ child[j].proc \in {"running", "eof"}
    /\ \E ok \in BOOLEAN :
         child' = [child EXCEPT ![j].proc = "exited", ![j].ok = ok,
                                ![j].raised = BackupToken(j) \in cancelled]
    /\ UNCHANGED <<config, runtime, keychain, cancelled, hardware, watcher,
                   job, progress_rx, restore>>
    /\ UNCHANGED <<medium, admin, wiped, policy, forget_args, helpers>>

\* backup_with_progress (restic.rs 218-253): the select takes read_line,
\* which gives a status line.
Bwp_Status(j) ==
    /\ child[j].call = "backup"
    /\ child[j].proc = "running"
    /\ child[j].at = "select"
    /\ Engine_Status(j)

\* backup_with_progress (restic.rs 220-225): the select takes the
\* cancellation, the subprocess is killed and the call fails.
Bwp_Cancelled(j) ==
    /\ child[j].call = "backup"
    /\ child[j].at = "select"
    /\ BackupToken(j) \in cancelled
    /\ child' = [child EXCEPT ![j] =
                   Returned([@ EXCEPT !.raised = TRUE], "cancelled",
                            @.proc # "exited")]
    /\ job' = [job EXCEPT ![j].pc = "rb_err"]
    /\ UNCHANGED <<config, runtime, keychain, cancelled, hardware, watcher,
                   progress_rx, restore>>
    /\ UNCHANGED <<medium, admin, wiped, policy, forget_args, helpers>>

\* backup_with_progress (restic.rs 226-231): the select takes read_line,
\* which gives end-of-file, and the loop is left; tokio's select polls its
\* ready branches in random order, raised token or not.
Bwp_Eof(j) ==
    /\ child[j].call = "backup"
    /\ child[j].at = "select"
    /\ child[j].proc \in {"eof", "exited"}
    /\ child' = [child EXCEPT ![j].at = "wait"]
    /\ UNCHANGED <<config, runtime, keychain, cancelled, hardware, watcher,
                   job, progress_rx, restore>>
    /\ UNCHANGED <<medium, admin, wiped, policy, forget_args, helpers>>

\* backup_with_progress (restic.rs 277-286): child.wait() gives the exit
\* status, and run_backup joins the task (backup.rs 131).
Bwp_Wait(j) ==
    /\ child[j].call = "backup"
    /\ child[j].at = "wait"
    /\ child[j].proc = "exited"
    /\ \E summary \in BOOLEAN :
         backup_joined(j, IF child[j].ok THEN "ok" ELSE "failed", summary)
    /\ child' = [child EXCEPT ![j] =
                   Returned(@, IF @.ok THEN "ok" ELSE "failed", FALSE)]
    /\ UNCHANGED <<medium, admin, wiped, policy, forget_args, helpers>>

\* run_capture (restic.rs 430-442) under check_quick, check_deep and
\* forget_prune (328-361): wait_with_output gives the exit status, and
\* run_backup goes on (backup.rs 149-154, 167-172, 185-190).
RunCapture_Return(j) ==
    /\ child[j].call \in {"quick", "deep", "prune"}
    /\ child[j].proc = "exited"
    /\ CASE child[j].call = "quick" -> quick_checked(j, child[j].ok)
         [] child[j].call = "deep" -> deep_checked(j, child[j].ok)
         [] OTHER -> pruned(j, child[j].ok)
    /\ child' = [child EXCEPT ![j] =
                   Returned(@, IF @.ok THEN "ok" ELSE "failed", FALSE)]
    /\ UNCHANGED <<medium, admin, wiped, policy, forget_args, helpers>>

\* One backup task with its engine subprocesses, for a medium that is
\* plugged in once.
NextEngine ==
    \/ HardwareOnce("sdb1")
    \/ Watcher
    \/ \E j \in OneJob :
          \/ AttemptAutoBackup_Insert(j)
          \/ StartBackup(j)
          \/ RunBackup_Start(j)
          \/ RunBackup_Token(j)
          \/ RunBackup_Config(j)
          \/ Engine_Spawn(j)
          \/ Engine_CloseStdout(j)
          \/ Engine_Exit(j)
          \/ Bwp_Status(j)
          \/ Bwp_Cancelled(j)
          \/ Bwp_Eof(j)
          \/ Bwp_Wait(j)
          \/ RunCapture_Return(j)
          \/ Forwarder(j)
          \/ RunBackup_PersistOk(j)
          \/ RunBackup_Err(j)
          \/ RunBackup_PersistErr(j)
          \/ Cleanup(j)

SpecEngine == InitFull /\ [][NextEngine]_vars

\* ------------------------------------------- label inputs (config.rs)
\* The labels a request may carry.
RawLabels == {<<"a", " ">>, <<" ", "A">>, <<"^">>}

\* The strings of at most n characters.
Labels(n) == UNION {[1..k -> {"a", " ", "\t", "^"}] : k \in 0..n}

\* The strings sanitize_label is given: every string of at most MaxLabelLen
\* characters, and strings around the cap, LABEL_MAX_LEN - 2 letters with at
\* most MaxPad characters before and after them.
LabelInputs ==
    Labels(MaxLabelLen)
      \cup {p \o [i \in 1..(LABEL_MAX_LEN - 2) |-> "a"] \o q :
              p \in Labels(MaxPad), q \in Labels(MaxPad)}

\* A label arrives from a request, a configuration file or a marker file.
InitLabels ==
    /\ InitState([d \in {"d1"} |-> NewTrustedDrive], FALSE, FALSE, FALSE, {},
                 {}, [dev \in Devs |-> IF dev = "sdb1" THEN "d1" ELSE "d2"],
                 [dev \in Devs |-> PairedMedium(dev)])
    /\ policy = DefaultPolicy
    /\ forget_args = NotCalled
    /\ \E s \in LabelInputs : NoCalls(s)

\* sanitize_label is called on the string (setup_drive, ipc.rs 420), and
\* once more on what it returned when that is a label (read_marker,
\* drive.rs 44, on the label setup_drive wrote; AgentConfig::load,
\* config.rs 115, on the label it saved).
SanitizeLabel ==
    /\ Len(label_call.outputs) < 2
    /\ label_call.outputs # << >> => label_call.outputs[1] # << >>
    /\ label_call' =
         [label_call EXCEPT
            !.outputs = Append(@, sanitize_label(IF @ = << >>
                                                 THEN label_call.input
                                                 ELSE @[1]))]
    /\ UNCHANGED <<config, runtime, keychain, hardware, medium, admin, wiped>>
    /\ UNCHANGED <<cancelled, watcher, job, progress_rx, restore, child, policy,
                   forget_args, marker_call, mount_call, format_call>>

SpecLabels == InitLabels /\ [][SanitizeLabel]_vars

\* ------------------------------------------ device helpers (devices.rs)
\* The attempts of mount_partition (devices.rs 244) and the pause between
\* two of them in milliseconds (devices.rs 262).
MOUNT_ATTEMPTS == 3
MOUNT_BACKOFF_MS == 1200

\* One entry of the log of a call: a run of the tool with the label option
\* it was given and how it ended, or a pause.
Ran(tool, flag, outcome) ==
    [what |-> tool, flag |-> flag, outcome |-> outcome, ms |-> 0]
Slept(ms) == [what |-> "sleep", flag |-> None, outcome |-> None, ms |-> ms]

\* How `udisksctl mount -b dev` can end (devices.rs 245-256): "spawn" when
\* the command cannot be run, "ok", "not_mountable" when stderr says the
\* device is not a mountable filesystem (udev has not settled yet), "other"
\* for every other failure. Only a device that is present and not mounted
\* can be mounted or be waited for.
MountOutcomes(dev) ==
    IF dev \in plugged /\ dev \notin mounted
    THEN {"spawn", "ok", "not_mountable", "other"}
    ELSE {"spawn", "other"}

\* The call has returned: Ok with the mount path, or Err.
MountReturns(result) ==
    mount_call' = [mount_call EXCEPT !.pc = "done", !.result = result]

\* mount_partition (devices.rs 241-243): ensure_udisksctl, then the loop.
MountPartition_Call(dev, has_udisksctl) ==
    /\ mount_call.pc = "idle"
    /\ mount_call' =
         IF has_udisksctl
         THEN [mount_call EXCEPT !.pc = "attempt", !.dev = dev, !.attempt = 1]
         ELSE [mount_call EXCEPT !.pc = "done", !.dev = dev, !.result = "Err"]
    /\ UNCHANGED <<config, runtime, keychain, hardware, medium, admin, wiped>>
    /\ UNCHANGED <<cancelled, watcher, job, progress_rx, restore, child, policy,
                   forget_args, label_call, marker_call, format_call>>

\* A mount_partition that pauses and tries again after every failure.
MountPartition_Attempt_RetryAll ==
    /\ mount_call.pc = "attempt"
    /\ \E outcome \in MountOutcomes(mount_call.dev) :
         LET ran == Append(mount_call.log, Ran("udisksctl mount", None, outcome))
         IN IF outcome = "ok"
            THEN /\ mounted' = mounted \cup {mount_call.dev}
                 /\ mount_call' = [mount_call EXCEPT !.pc = "find", !.log = ran]
            ELSE /\ mount_call' =
                      [mount_call EXCEPT
                         !.attempt = @ + 1,
                         !.pc = IF mount_call.attempt < MOUNT_ATTEMPTS
                                THEN "attempt" ELSE "done",
                         !.result = IF mount_call.attempt < MOUNT_ATTEMPTS
                                    THEN None ELSE "Err",
                         !.log = Append(ran, Slept(MOUNT_BACKOFF_MS))]
                 /\ UNCHANGED mounted
    /\ UNCHANGED <<plugged, marker, events, hotplugs>>
    /\ UNCHANGED <<config, runtime, keychain, medium, admin, wiped>>
    /\ UNCHANGED <<cancelled, watcher, job, progress_rx, restore, child, policy,
                   forget_args, label_call, marker_call, format_call>>

\* mount_partition (devices.rs 244-272): one turn of the loop. udisksctl is
\* run; when it succeeds the mount point is looked up next; when stderr
\* says the device is not mountable yet and this was not the last attempt
\* the thread sleeps and the loop goes on; every other failure returns.
MountPartition_Attempt ==
    /\ mount_call.pc = "attempt"
    /\ \E outcome \in MountOutcomes(mount_call.dev) :
         LET ran == Append(mount_call.log, Ran("udisksctl mount", None, outcome))
         IN CASE outcome = "ok" ->
                   /\ mounted' = mounted \cup {mount_call.dev}
                   /\ mount_call' = [mount_call EXCEPT !.pc = "find",
                                                       !.log = ran]
              [] outcome = "not_mountable"
                   /\ mount_call.attempt < MOUNT_ATTEMPTS ->
                   /\ mount_call' =
                        [mount_call EXCEPT
                           !.attempt = @ + 1,
                           !.log = Append(ran, Slept(MOUNT_BACKOFF_MS))]
                   /\ UNCHANGED mounted
              [] OTHER ->
                   /\ mount_call' = [mount_call EXCEPT !.pc = "done",
                                                       !.result = "Err",
                                                       !.log = ran]
                   /\ UNCHANGED mounted
    /\ UNCHANGED <<plugged, marker, events, hotplugs>>
    /\ UNCHANGED <<config, runtime, keychain, medium, admin, wiped>>
    /\ UNCHANGED <<cancelled, watcher, job, progress_rx, restore, child, policy,
                   forget_args, label_call, marker_call, format_call>>

\* mount_partition (devices.rs 250-253): find_mountpoint after a successful
\* mount; the mount may be gone again by then.
MountPartition_Find ==
    /\ mount_call.pc = "find"
    /\ MountReturns(IF mount_call.dev \in mounted
                    THEN MountPathOf(mount_call.dev) ELSE "Err")
    /\ UNCHANGED <<config, runtime, keychain, hardware, medium, admin, wiped>>
    /\ UNCHANGED <<cancelled, watcher, job, progress_rx, restore, child, policy,
                   forget_args, label_call, marker_call, format_call>>

\* A mount_partition call while media come and go.
NextMount ==
    \/ \E dev \in Devs : Hardware(dev)
    \/ \E dev \in Devs, has_udisksctl \in BOOLEAN :
          MountPartition_Call(dev, has_udisksctl)
    \/ MountPartition_Attempt
    \/ MountPartition_Find

SpecMount == InitManual /\ [][NextMount]_vars

\* How the tool that formats can end (devices.rs 305-317, 416-475): "spawn"
\* when the command cannot be run, "ok", "rejected" when stderr says the
\* label option is invalid or unknown, "other" for every other failure.
\* Only a device that is present can be formatted.
FormatOutcomes(dev) ==
    {"spawn", "rejected", "other"} \cup (IF dev \in plugged THEN {"ok"} ELSE {})

\* The call has returned; a format that succeeded has left a blank medium.
FormatReturns(ok, log) ==
    /\ format_call' = [format_call EXCEPT
                         !.pc = "done", !.log = log,
                         !.result = IF ok THEN "Ok" ELSE "Err"]
    /\ marker' = IF ok THEN [marker EXCEPT ![format_call.dev] = None]
                 ELSE marker
    /\ medium' = IF ok THEN [medium EXCEPT ![format_call.dev] = BlankMedium]
                 ELSE medium

\* format_partition_exfat (devices.rs 277-279): the tool is the one the
\* installation offers: `udisksctl format` when udisksctl lists it, else
\* mkfs.exfat, through pkexec when there is one, else nothing.
FormatPartition_Call(dev, tool) ==
    /\ format_call.pc = "idle"
    /\ format_call' = [format_call EXCEPT !.pc = "unmount", !.dev = dev,
                                          !.attempt = 1, !.tool = tool]
    /\ UNCHANGED <<config, runtime, keychain, hardware, medium, admin, wiped>>
    /\ UNCHANGED <<cancelled, watcher, job, progress_rx, restore, child, policy,
                   forget_args, label_call, marker_call, mount_call>>

\* format_partition_exfat (devices.rs 280-298): one turn of the unmount
\* loop. No mount point ends the loop; a failed unmount is followed by a
\* sleep and the next turn, and returned as error in the third turn; after
\* an unmount that succeeded the next turn finds no mount point, or the
\* loop is over.
FormatPartition_Unmount ==
    /\ format_call.pc = "unmount"
    /\ \E lsblk \in BOOLEAN, ok \in BOOLEAN :
         CASE ~lsblk ->
                /\ format_call' = [format_call EXCEPT !.pc = "done",
                                                      !.result = "Err"]
                /\ UNCHANGED mounted
           [] lsblk /\ format_call.dev \notin mounted ->
                /\ format_call' = [format_call EXCEPT !.pc = "format"]
                /\ UNCHANGED mounted
           [] lsblk /\ format_call.dev \in mounted /\ ok ->
                /\ mounted' = mounted \ {format_call.dev}
                /\ format_call' =
                     [format_call EXCEPT
                        !.pc = IF format_call.attempt < 3 THEN "unmount"
                               ELSE "format",
                        !.attempt = @ + 1,
                        !.log = Append(@, Ran("udisksctl unmount", None, "ok"))]
           [] OTHER ->
                /\ format_call' =
                     IF format_call.attempt < 3
                     THEN [format_call EXCEPT
                             !.attempt = @ + 1,
                             !.log = @ \o <<Ran("udisksctl unmount", None,
                                                "other"), Slept(800)>>]
                     ELSE [format_call EXCEPT
                             !.pc = "done", !.result = "Err",
                             !.log = Append(@, Ran("udisksctl unmount", None,
                                                   "other"))]
                /\ UNCHANGED mounted
    /\ UNCHANGED <<plugged, marker, events, hotplugs>>
    /\ UNCHANGED <<config, runtime, keychain, medium, admin, wiped>>
    /\ UNCHANGED <<cancelled, watcher, job, progress_rx, restore, child, policy,
                   forget_args, label_call, marker_call, mount_call>>

\* A format that gives up when mkfs.exfat rejects -n.
FormatPartition_Format_NoRetry ==
    /\ format_call.pc = "format"
    /\ \E outcome \in FormatOutcomes(format_call.dev) :
         CASE format_call.tool = None -> FormatReturns(FALSE, format_call.log)
           [] format_call.tool = "udisksctl format" ->
                FormatReturns(outcome = "ok",
                              Append(format_call.log,
                                     Ran(format_call.tool, "--label", outcome)))
           [] OTHER ->
                LET ran == Append(format_call.log,
                                  Ran(format_call.tool, "-n", outcome))
                IN FormatReturns(outcome = "ok",
                                 IF outcome = "ok"
                                 THEN Append(ran, Slept(1200)) ELSE ran)
    /\ UNCHANGED <<plugged, mounted, events, hotplugs>>
    /\ UNCHANGED <<config, runtime, keychain, admin, wiped>>
    /\ UNCHANGED <<cancelled, watcher, job, progress_rx, restore, child, policy,
                   forget_args, label_call, marker_call, mount_call>>

\* format_partition_exfat (devices.rs 300-327), run_mkfs_exfat (408-445):
\* `udisksctl format --label` returns whatever happens; without it and
\* without mkfs.exfat the call fails; mkfs.exfat is run with -n, returns
\* after wait_for_udev_after_format (481-490) when it succeeded, goes on to
\* the second run when stderr names an invalid or unknown option, and
\* returns the error otherwise.
FormatPartition_Format ==
    /\ format_call.pc = "format"
    /\ \E outcome \in FormatOutcomes(format_call.dev) :
         CASE format_call.tool = None -> FormatReturns(FALSE, format_call.log)
           [] format_call.tool = "udisksctl format" ->
                FormatReturns(outcome = "ok",
                              Append(format_call.log,
                                     Ran(format_call.tool, "--label", outcome)))
           [] OTHER ->
                LET ran == Append(format_call.log,
                                  Ran(format_call.tool, "-n", outcome))
                IN CASE outcome = "ok" ->
                          FormatReturns(TRUE, Append(ran, Slept(1200)))
                     [] outcome = "rejected" ->
                          /\ format_call' = [format_call EXCEPT
                                               !.pc = "format_alt", !.log = ran]
                          /\ UNCHANGED <<marker, medium>>
                     [] OTHER -> FormatReturns(FALSE, ran)
    /\ UNCHANGED <<plugged, mounted, events, hotplugs>>
    /\ UNCHANGED <<config, runtime, keychain, admin, wiped>>
    /\ UNCHANGED <<cancelled, watcher, job, progress_rx, restore, child, policy,
                   forget_args, label_call, marker_call, mount_call>>

\* run_mkfs_exfat (devices.rs 447-472): the second run, with -L.
FormatPartition_Alt ==
    /\ format_call.pc = "format_alt"
    /\ \E outcome \in FormatOutcomes(format_call.dev) :
         LET ran == Append(format_call.log,
                           Ran(format_call.tool, "-L", outcome))
         IN FormatReturns(outcome = "ok",
                          IF outcome = "ok" THEN Append(ran, Slept(1200))
                          ELSE ran)
    /\ UNCHANGED <<plugged, mounted, events, hotplugs>>
    /\ UNCHANGED <<config, runtime, keychain, admin, wiped>>
    /\ UNCHANGED <<cancelled, watcher, job, progress_rx, restore, child, policy,
                   forget_args, label_call, marker_call, mount_call>>

\* A format_partition_exfat call while media come and go.
NextFormat ==
    \/ \E dev \in Devs : Hardware(dev)
    \/ \E dev \in Devs,
          tool \in {None, "udisksctl format", "mkfs.exfat",
                    "pkexec mkfs.exfat"} :
          FormatPartition_Call(dev, tool)
    \/ FormatPartition_Unmount
    \/ FormatPartition_Format
    \/ FormatPartition_Alt

SpecFormat == InitMounted /\ [][NextFormat]_vars

\* ------------------------------------------ discontinue_drive (ipc.rs)
\* Request slots are taken in order; which slot a request gets has no
\* meaning.
FreeAdmin(a) ==
    admin[a].pc = "idle" /\ \A k \in Admins : k < a => admin[k].pc # "idle"

\* What the requests of this part never write.
tasks == <<cancelled, watcher, job, progress_rx, restore, child, policy,
          forget_args, helpers>>
locks == <<last_run, running_drive_ids, backup_progress,
           running_cancel_tokens, restore_drive_id, restore_cancel_token>>

AdminDone(a, op, response) ==
    admin' = [admin EXCEPT ![a] = [@ EXCEPT !.pc = "done", !.op = op,
                                            !.response = response]]

\* discontinue_drive (ipc.rs 553-592): under the write lock the record is
\* looked up, the typed confirmation is compared with its label, a wipe is
\* only accepted for the connected drive, and the record is removed.
Discontinue_Lock(a, d, confirm_label, wipe) ==
    /\ FreeAdmin(a)
    /\ LET known == d \in DOMAIN config.trusted_drives
           expected == IF known THEN config.trusted_drives[d].label ELSE << >>
           confirmed == trim(confirm_label)
           connected == drive_status.drive_id = d
                        /\ drive_status.devnode # None
       IN IF ~known
          THEN AdminDone(a, "discontinue", "Drive not found.")
               /\ UNCHANGED config
          ELSE IF expected = << >>
          THEN AdminDone(a, "discontinue", "Drive has no label")
               /\ UNCHANGED config
          ELSE IF confirmed # expected
          THEN AdminDone(a, "discontinue", "Confirmation does not match.")
               /\ UNCHANGED config
          ELSE IF wipe /\ ~connected
          THEN AdminDone(a, "discontinue", "Drive must be connected to wipe.")
               /\ UNCHANGED config
          ELSE /\ config' = [config EXCEPT
                               !.trusted_drives = MapRemove(@, d)]
               /\ admin' = [admin EXCEPT ![a] =
                              [IdleAdmin EXCEPT
                                 !.pc = "dd_keychain", !.op = "discontinue",
                                 !.drive_id = d, !.wipe = wipe,
                                 !.label = confirm_label,
                                 !.expected = expected,
                                 !.connected = connected,
                                 !.dev = IF wipe THEN drive_status.devnode
                                         ELSE None]]
    /\ UNCHANGED <<drive_status, locks, keychain, hardware, tasks, medium,
                   wiped>>

\* discontinue_drive (ipc.rs 593): the cached passphrase is deleted.
Discontinue_Keychain(a) ==
    /\ admin[a].pc = "dd_keychain"
    /\ keychain' = keychain \ {admin[a].drive_id}
    /\ IF admin[a].wipe
       THEN admin' = [admin EXCEPT ![a].pc = "dd_unmount"]
       ELSE AdminDone(a, "discontinue", "ok")
    /\ UNCHANGED <<config, drive_status, locks, hardware, tasks, medium,
                   wiped>>

\* discontinue_drive (ipc.rs 595-597) and unmount_partition (devices.rs
\* 351-373): udisksctl unmounts the partition or fails (busy, not mounted);
\* a failure is only logged.
Discontinue_Unmount(a) ==
    /\ admin[a].pc = "dd_unmount"
    /\ \E ok \in BOOLEAN :
          /\ ok => admin[a].dev \in mounted
          /\ mounted' = IF ok THEN mounted \ {admin[a].dev} ELSE mounted
          /\ admin' = [admin EXCEPT ![a] = [@ EXCEPT !.pc = "dd_wipe",
                                                     !.unmount_ok = ok]]
    /\ UNCHANGED <<plugged, marker, events, hotplugs>>
    /\ UNCHANGED <<config, drive_status, locks, keychain, tasks, medium,
                   wiped>>

\* discontinue_drive (ipc.rs 598-603) and secure_wipe_block_device
\* (devices.rs 376-396): the helper is invoked on the device node; when it
\* succeeds the medium holds zeros.
Discontinue_Wipe(a) ==
    /\ admin[a].pc = "dd_wipe"
    /\ wiped' = wiped \cup {[dev |-> admin[a].dev,
                             requested |-> admin[a].wipe,
                             confirm_label |-> admin[a].label,
                             expected |-> admin[a].expected,
                             connected |-> admin[a].connected,
                             unmount_ok |-> admin[a].unmount_ok,
                             mounted |-> admin[a].dev \in mounted]}
    /\ \E ok \in BOOLEAN :
          /\ ok => admin[a].dev \in plugged
          /\ IF ok
             THEN /\ marker' = [marker EXCEPT ![admin[a].dev] = None]
                  /\ medium' = [medium EXCEPT ![admin[a].dev] = BlankMedium]
                  /\ admin' = [admin EXCEPT ![a].pc = "dd_clear"]
             ELSE /\ AdminDone(a, "discontinue", "Secure wipe failed")
                  /\ UNCHANGED <<marker, medium>>
    /\ UNCHANGED <<plugged, mounted, events, hotplugs>>
    /\ UNCHANGED <<config, drive_status, locks, keychain, tasks>>

\* A clearing that only marks the status as not connected.
Discontinue_Clear_ConnectedOnly(a) ==
    /\ admin[a].pc = "dd_clear"
    /\ drive_status' = [drive_status EXCEPT !.connected = FALSE]
    /\ AdminDone(a, "discontinue", "ok")
    /\ UNCHANGED <<config, locks, keychain, hardware, tasks, medium, wiped>>

\* discontinue_drive (ipc.rs 604-611): the status is cleared under the
\* write lock.
Discontinue_Clear(a) ==
    /\ admin[a].pc = "dd_clear"
    /\ drive_status' = Disconnected
    /\ AdminDone(a, "discontinue", "ok")
    /\ UNCHANGED <<config, locks, keychain, hardware, tasks, medium, wiped>>

DiscontinueDrive(a) ==
    \/ \E d \in Drives, confirm_label \in RawLabels, wipe \in BOOLEAN :
          Discontinue_Lock(a, d, confirm_label, wipe)
    \/ Discontinue_Keychain(a)
    \/ Discontinue_Unmount(a)
    \/ Discontinue_Wipe(a)
    \/ Discontinue_Clear(a)

\* The watcher and discontinue_drive requests for a medium that is plugged
\* in up to MaxHotplug times; no passphrase is cached.
NextDiscontinue ==
    \/ Hardware("sdb1")
    \/ Watcher
    \/ \E a \in Admins : DiscontinueDrive(a)

SpecDiscontinue == InitManual /\ [][NextDiscontinue]_vars

\* ------------------------------------------------ setup_drive (ipc.rs)
\* DriveMarker::new (drive.rs 19-30) draws a random identity: a different
\* one for every request that creates a marker.
NewDriveId(a) == <<"n1", "n2", "n3", "n4">>[a]

\* default_drive_label (ipc.rs 26-39) draws "backup-" and a random suffix
\* until the label is not in use: a different label for every request.
default_drive_label(a) == <<"k", <<"1", "2", "3", "4">>[a]>>

\* AgentConfig::enforce_security_invariants (config.rs 159-163)
enforce_security_invariants(cfg) ==
    IF cfg.paranoid_mode THEN [cfg EXCEPT !.remember_passphrase = FALSE]
    ELSE cfg

\* A read_marker that returns the label as it is in the file.
read_marker_Raw(dev) ==
    {IF m = None THEN NoMarker
     ELSE IF m = "Err" THEN [NoMarker EXCEPT !.drive_id = "Err"]
     ELSE [drive_id |-> m, created_epoch |-> medium[dev].created_epoch,
           label |-> medium[dev].label,
           repository_id |-> medium[dev].repository_id] :
     m \in MarkerReads(dev)}

\* read_marker (drive.rs 36-46): the marker file with its label sanitized,
\* NoMarker when there is no file, "Err" when the file cannot be read.
read_marker(dev) ==
    {IF m = None THEN NoMarker
     ELSE IF m = "Err" THEN [NoMarker EXCEPT !.drive_id = "Err"]
     ELSE [drive_id |-> m, created_epoch |-> medium[dev].created_epoch,
           label |-> sanitize_label(medium[dev].label),
           repository_id |-> medium[dev].repository_id] :
     m \in MarkerReads(dev)}

\* write_marker (drive.rs 48-54) replaces the whole file.
write_marker(dev, m) ==
    /\ marker' = [marker EXCEPT ![dev] = m.drive_id]
    /\ medium' = [medium EXCEPT ![dev] =
                    [created_epoch |-> m.created_epoch, label |-> m.label,
                     repository_id |-> m.repository_id, repo |-> @.repo]]

\* The markers write_marker is given (DriveMarker, drive.rs 11-16).
DriveMarkers ==
    [drive_id : Drives, created_epoch : {1}, label : Labels(MaxLabelLen),
     repository_id : {None, "r1"}]

\* write_marker (drive.rs 48-54) on the mount of dev: the file is replaced,
\* or the directory or the file cannot be written and the file stays.
WriteMarker(dev, m, ok) ==
    /\ marker_call.pc = "idle"
    /\ IF ok THEN write_marker(dev, m) ELSE UNCHANGED <<marker, medium>>
    /\ marker_call' = [marker_call EXCEPT
                         !.pc = IF ok THEN "written" ELSE "write_failed",
                         !.dev = dev, !.written = m]
    /\ UNCHANGED <<config, runtime, keychain, plugged, mounted, events,
                   hotplugs, admin, wiped>>
    /\ UNCHANGED <<cancelled, watcher, job, progress_rx, restore, child, policy,
                   forget_args, label_call, mount_call, format_call>>

\* read_marker (drive.rs 36-46) on the same mount.
ReadMarker ==
    /\ marker_call.pc = "written"
    /\ \E r \in read_marker(marker_call.dev) :
          marker_call' = [marker_call EXCEPT !.pc = "read", !.read = r]
    /\ UNCHANGED <<config, runtime, keychain, hardware, medium, admin, wiped>>
    /\ UNCHANGED <<cancelled, watcher, job, progress_rx, restore, child, policy,
                   forget_args, label_call, mount_call, format_call>>

NextMarker ==
    \/ \E dev \in Devs, m \in DriveMarkers, ok \in BOOLEAN :
          WriteMarker(dev, m, ok)
    \/ ReadMarker

SpecMarker == InitMounted /\ [][NextMarker]_vars

\* setup_drive (ipc.rs 391-442): the request is validated, then under a
\* read lock the label is computed and looked up in the trust store.
SetupDrive_Label(a, dev, label, has_passphrase, remember, paranoid) ==
    /\ FreeAdmin(a)
    /\ LET t == trim(label)
           raw_label == IF t = << >> THEN default_drive_label(a) ELSE t
           s1 == sanitize_label(raw_label)
           s2 == sanitize_label(default_drive_label(a))
           final_label == IF s1 # << >> THEN s1
                          ELSE IF s2 # << >> THEN s2
                          ELSE <<"b">>
       IN IF resolve_device_for_mount(MountPathOf(dev)) = None
          THEN AdminDone(a, "setup", "mount path is not a mounted drive")
          ELSE IF ~has_passphrase
          THEN AdminDone(a, "setup", "passphrase required")
          ELSE IF label_exists(config, final_label, None)
          THEN AdminDone(a, "setup", "A drive with this name already exists.")
          ELSE admin' = [admin EXCEPT ![a] =
                           [IdleAdmin EXCEPT
                              !.pc = "sd_read", !.op = "setup", !.dev = dev,
                              !.label = final_label, !.remember = remember,
                              !.paranoid = paranoid]]
    /\ UNCHANGED <<config, drive_status, locks, keychain, hardware, tasks,
                   medium, wiped>>

\* setup_drive (ipc.rs 451-459): the marker of the medium is read.
SetupDrive_ReadMarker(a) ==
    /\ admin[a].pc = "sd_read"
    /\ \E m \in read_marker(admin[a].dev) :
          IF m.drive_id = "Err"
          THEN AdminDone(a, "setup", "marker read failed")
          ELSE IF m.drive_id = None
          THEN admin' = [admin EXCEPT ![a].pc = "sd_new"]
          ELSE admin' = [admin EXCEPT ![a] = [@ EXCEPT !.pc = "sd_repo",
                                                       !.marker = m]]
    /\ UNCHANGED <<config, drive_status, locks, keychain, hardware, tasks,
                   medium, wiped>>

\* setup_drive (ipc.rs 460-468): no marker was found, a new one is created
\* and written.
SetupDrive_NewMarker(a) ==
    /\ admin[a].pc = "sd_new"
    /\ LET m == [drive_id |-> NewDriveId(a), created_epoch |-> 2,
                 label |-> admin[a].label, repository_id |-> None]
       IN \E ok \in BOOLEAN :
             /\ ok => admin[a].dev \in mounted
             /\ IF ok
                THEN /\ write_marker(admin[a].dev, m)
                     /\ admin' = [admin EXCEPT ![a] =
                                    [@ EXCEPT !.pc = "sd_repo", !.marker = m]]
                ELSE /\ AdminDone(a, "setup", "marker write failed")
                     /\ UNCHANGED <<marker, medium>>
    /\ UNCHANGED <<plugged, mounted, events, hotplugs>>
    /\ UNCHANGED <<config, drive_status, locks, keychain, tasks, wiped>>

\* setup_drive (ipc.rs 471-479): the repository directory is created and
\* the repository's config file is looked for.
SetupDrive_RepoCheck(a) ==
    /\ admin[a].pc = "sd_repo"
    /\ admin' = [admin EXCEPT ![a].pc =
                   IF medium[admin[a].dev].repo # None THEN "sd_repoid"
                   ELSE "sd_init"]
    /\ UNCHANGED <<config, drive_status, locks, keychain, hardware, tasks,
                   medium, wiped>>

\* setup_drive (ipc.rs 479-484) and Restic::repository_id (restic.rs
\* 110-118): the id of the existing repository is read with the passphrase.
SetupDrive_RepositoryId(a) ==
    /\ admin[a].pc = "sd_repoid"
    /\ \E ok \in BOOLEAN :
          /\ ok => medium[admin[a].dev].repo # None
          /\ IF ok
             THEN admin' = [admin EXCEPT ![a] =
                              [@ EXCEPT !.pc = "sd_mark",
                                        !.repo_id = medium[admin[a].dev].repo]]
             ELSE AdminDone(a, "setup", "invalid passphrase or repo")
    /\ UNCHANGED <<config, drive_status, locks, keychain, hardware, tasks,
                   medium, wiped>>

\* setup_drive (ipc.rs 485-491) and Restic::init_repo (restic.rs 103-108):
\* restic init creates the repository, and fails when there is one.
SetupDrive_Init(a) ==
    /\ admin[a].pc = "sd_init"
    /\ \E ok \in BOOLEAN :
          /\ ok => medium[admin[a].dev].repo = None
          /\ IF ok
             THEN /\ medium' = [medium EXCEPT
                                  ![admin[a].dev].repo = RepoIdOf(admin[a].dev)]
                  /\ admin' = [admin EXCEPT ![a] =
                                 [@ EXCEPT !.pc = "sd_mark",
                                           !.repo_id = RepoIdOf(admin[a].dev)]]
             ELSE /\ AdminDone(a, "setup", "failed to init repo")
                  /\ UNCHANGED medium
    /\ UNCHANGED <<config, drive_status, locks, keychain, hardware, tasks,
                   wiped>>

\* setup_drive (ipc.rs 493-495): the marker that was read or created is
\* written back with the repository id; a failure is ignored.
SetupDrive_WriteMarker(a) ==
    /\ admin[a].pc = "sd_mark"
    /\ \E ok \in BOOLEAN :
          /\ ok => admin[a].dev \in mounted
          /\ IF ok
             THEN write_marker(admin[a].dev,
                               [admin[a].marker EXCEPT
                                  !.repository_id = admin[a].repo_id])
             ELSE UNCHANGED <<marker, medium>>
    /\ admin' = [admin EXCEPT ![a].pc = "sd_commit"]
    /\ UNCHANGED <<plugged, mounted, events, hotplugs>>
    /\ UNCHANGED <<config, drive_status, locks, keychain, tasks, wiped>>

\* setup_drive (ipc.rs 497-533): under the write lock the two passphrase
\* flags are taken from the request, the record is inserted, the status is
\* set to the new drive and the passphrase is stored when it may be cached.
SetupDrive_Commit(a) ==
    /\ admin[a].pc = "sd_commit"
    /\ LET d == admin[a].marker.drive_id
           mount == MountPathOf(admin[a].dev)
           device == resolve_device_for_mount(mount)
           flags == enforce_security_invariants(
                       [config EXCEPT !.remember_passphrase = admin[a].remember,
                                      !.paranoid_mode = admin[a].paranoid])
       IN /\ config' = [flags EXCEPT
                          !.trusted_drives =
                              MapInsert(@, d, TrustedDrive(admin[a].label,
                                                           admin[a].repo_id))]
          /\ drive_status' = [connected |-> TRUE, trusted |-> TRUE,
                              drive_id |-> d, label |-> admin[a].label,
                              mount_path |-> mount,
                              devnode |-> IF device # None THEN device
                                          ELSE drive_status.devnode]
          /\ keychain' = IF flags.remember_passphrase
                         THEN keychain \cup {d} ELSE keychain
          /\ admin' = [admin EXCEPT ![a] = [@ EXCEPT !.pc = "done",
                                                     !.drive_id = d,
                                                     !.response = "ok"]]
    /\ UNCHANGED <<locks, hardware, tasks, medium, wiped>>

SetupDrive(a) ==
    \/ \E dev \in Devs, label \in RawLabels, has_passphrase \in BOOLEAN,
          remember \in BOOLEAN, paranoid \in BOOLEAN :
          SetupDrive_Label(a, dev, label, has_passphrase, remember, paranoid)
    \/ SetupDrive_ReadMarker(a)
    \/ SetupDrive_NewMarker(a)
    \/ SetupDrive_RepoCheck(a)
    \/ SetupDrive_RepositoryId(a)
    \/ SetupDrive_Init(a)
    \/ SetupDrive_WriteMarker(a)
    \/ SetupDrive_Commit(a)

\* ----------------------------------------------- update_drive (ipc.rs)
\* update_drive (ipc.rs 629-658): under the write lock the record is looked
\* up, the new label is sanitized and looked up among the other drives, and
\* the record is renamed; for the connected drive the lock is dropped for
\* the marker.
UpdateDrive_Lock(a, d, label) ==
    /\ FreeAdmin(a)
    /\ LET s1 == sanitize_label(label)
           new_label == IF s1 # << >> THEN s1 ELSE sanitize_label(trim(label))
       IN IF d \notin DOMAIN config.trusted_drives
          THEN AdminDone(a, "update", "Drive not found.")
               /\ UNCHANGED <<config, drive_status>>
          ELSE IF new_label = << >>
          THEN AdminDone(a, "update", "Label is empty or invalid")
               /\ UNCHANGED <<config, drive_status>>
          ELSE IF label_exists(config, new_label, d)
          THEN AdminDone(a, "update", "A drive with this name already exists.")
               /\ UNCHANGED <<config, drive_status>>
          ELSE /\ config' = [config EXCEPT
                               !.trusted_drives[d].label = new_label]
               /\ drive_status' = IF drive_status.drive_id = d
                                  THEN [drive_status EXCEPT !.label = new_label]
                                  ELSE drive_status
               /\ admin' = [admin EXCEPT ![a] =
                              [IdleAdmin EXCEPT
                                 !.op = "update", !.drive_id = d,
                                 !.label = new_label,
                                 !.pc = IF drive_status.drive_id = d
                                           /\ drive_status.mount_path # None
                                        THEN "ud_read" ELSE "done",
                                 !.response = IF drive_status.drive_id = d
                                                 /\ drive_status.mount_path # None
                                              THEN None ELSE "ok",
                                 !.dev = IF drive_status.drive_id = d
                                         THEN drive_status.mount_path
                                         ELSE None]]
    /\ UNCHANGED <<locks, keychain, hardware, tasks, medium, wiped>>

\* update_drive (ipc.rs 659): the marker at the recorded mount is read.
UpdateDrive_ReadMarker(a) ==
    /\ admin[a].pc = "ud_read"
    /\ \E m \in read_marker(admin[a].dev) :
          admin' = [admin EXCEPT ![a] =
                      IF m.drive_id \in {None, "Err"}
                      THEN [@ EXCEPT !.pc = "ud_save"]
                      ELSE [@ EXCEPT !.pc = "ud_write",
                                     !.marker = [m EXCEPT !.label = admin[a].label]]]
    /\ UNCHANGED <<config, drive_status, locks, keychain, hardware, tasks,
                   medium, wiped>>

\* update_drive (ipc.rs 660-661): the marker is written back with the new
\* label; a failure is ignored.
UpdateDrive_WriteMarker(a) ==
    /\ admin[a].pc = "ud_write"
    /\ \E ok \in BOOLEAN :
          /\ ok => admin[a].dev \in mounted
          /\ IF ok THEN write_marker(admin[a].dev, admin[a].marker)
             ELSE UNCHANGED <<marker, medium>>
    /\ admin' = [admin EXCEPT ![a].pc = "ud_save"]
    /\ UNCHANGED <<plugged, mounted, events, hotplugs>>
    /\ UNCHANGED <<config, drive_status, locks, keychain, tasks, wiped>>

\* update_drive (ipc.rs 663-686): the write lock is taken again and the
\* configuration is saved.
UpdateDrive_Save(a) ==
    /\ admin[a].pc = "ud_save"
    /\ AdminDone(a, "update", "ok")
    /\ UNCHANGED <<config, drive_status, locks, keychain, hardware, tasks,
                   medium, wiped>>

UpdateDrive(a) ==
    \/ \E d \in Drives \cup {NewDriveId(k) : k \in Admins}, label \in RawLabels :
          UpdateDrive_Lock(a, d, label)
    \/ UpdateDrive_ReadMarker(a)
    \/ UpdateDrive_WriteMarker(a)
    \/ UpdateDrive_Save(a)

\* ---------------------------------------------- update_config (ipc.rs)
\* update_config (ipc.rs 343-379), under the write lock: the flags of the
\* request replace the stored ones and, in paranoid mode, the passphrases
\* of the trusted drives are deleted. The request repeats the pipeline
\* flags that are stored.
UpdateConfig(a, auto, remember, paranoid) ==
    /\ FreeAdmin(a)
    /\ config' = enforce_security_invariants(
                    [config EXCEPT !.auto_backup_on_insert = auto,
                                   !.remember_passphrase = remember,
                                   !.paranoid_mode = paranoid])
    /\ keychain' = IF config'.paranoid_mode
                   THEN keychain \ DOMAIN config.trusted_drives
                   ELSE keychain
    /\ admin' = [admin EXCEPT ![a] = [IdleAdmin EXCEPT !.pc = "done",
                                                       !.op = "config",
                                                       !.response = "ok"]]
    /\ UNCHANGED <<drive_status, locks, hardware, tasks, medium, wiped>>

\* A first installation: no drive is trusted and no passphrase is cached;
\* both media are mounted, the first carries the marker and the repository
\* of an earlier pairing, the second is blank.
InitSetup ==
    InitOver(<< >>, FALSE, FALSE, FALSE, {}, Devs,
             [dev \in Devs |-> IF dev = "sdb1" THEN "d1" ELSE None],
             [dev \in Devs |-> IF dev = "sdb1" THEN PairedMedium(dev)
                               ELSE BlankMedium])

\* Concurrent setup_drive, update_drive and update_config requests.
NextSetup ==
    \/ \E a \in Admins : SetupDrive(a)
    \/ \E a \in Admins : UpdateDrive(a)
    \/ \E a \in Admins, auto \in BOOLEAN, remember \in BOOLEAN,
          paranoid \in BOOLEAN : UpdateConfig(a, auto, remember, paranoid)

SpecSetup == InitSetup /\ [][NextSetup]_vars

\* No drive is trusted and auto_backup_on_insert is off; medium sdb1
\* carries a marker, with or without a repository, medium sdc1 is blank;
\* both are mounted.
InitStatus ==
    /\ \E repo \in {None, "r1"} :
          InitFrom(<< >>, <<Documents>>, FALSE, FALSE, FALSE, FALSE, {}, Devs,
                   [dev \in Devs |-> IF dev = "sdb1" THEN "d1" ELSE None],
                   [dev \in Devs |-> IF dev = "sdb1"
                                     THEN Medium(<<"a">>, "r1", repo)
                                     ELSE BlankMedium])
    /\ policy = DefaultPolicy
    /\ forget_args = NotCalled
    /\ NoCalls(<< >>)

\* Everything that writes the drive status: the watcher over one medium
\* that is plugged in once, and setup_drive, update_drive and discontinue_drive
\* requests for it.
NextStatus ==
    \/ HardwareOnce("sdb1")
    \/ Watcher
    \/ \E a \in Admins, label \in RawLabels :
          SetupDrive_Label(a, "sdb1", label, TRUE, FALSE, FALSE)
    \/ \E a \in Admins :
          \/ SetupDrive_ReadMarker(a)
          \/ SetupDrive_NewMarker(a)
          \/ SetupDrive_RepoCheck(a)
          \/ SetupDrive_RepositoryId(a)
          \/ SetupDrive_Init(a)
          \/ SetupDrive_WriteMarker(a)
          \/ SetupDrive_Commit(a)
    \/ \E a \in Admins, label \in RawLabels : UpdateDrive_Lock(a, "d1", label)
    \/ \E a \in Admins :
          \/ UpdateDrive_ReadMarker(a)
          \/ UpdateDrive_WriteMarker(a)
          \/ UpdateDrive_Save(a)
    \/ \E a \in Admins, label \in RawLabels, wipe \in BOOLEAN :
          Discontinue_Lock(a, "d1", label, wipe)
    \/ \E a \in Admins :
          \/ Discontinue_Keychain(a)
          \/ Discontinue_Unmount(a)
          \/ Discontinue_Wipe(a)
          \/ Discontinue_Clear(a)

SpecStatus == InitStatus /\ [][NextStatus]_vars

\* ------------------------------- run_backup: a medium without repository
\* run_backup (backup.rs 67-69) and Restic::init_repo (restic.rs 103-108):
\* restic init creates the repository and its id is read back; a failure
\* ends the run with an error.
RunBackup_Init(j) ==
    /\ job[j].pc = "rb_init"
    /\ \E ok \in BOOLEAN :
          /\ ok => /\ job[j].mount \in plugged \cap mounted
                   /\ medium[job[j].mount].repo = None
          /\ IF ok
             THEN /\ medium' = [medium EXCEPT
                                  ![job[j].mount].repo = RepoIdOf(job[j].mount)]
                  /\ job' = [job EXCEPT
                               ![j].pc = "rb_repo_id",
                               ![j].repo_id = RepoIdOf(job[j].mount)]
             ELSE /\ job' = [job EXCEPT ![j].pc = "rb_err"]
                  /\ UNCHANGED medium
    /\ UNCHANGED <<config, runtime, keychain, cancelled, hardware, watcher,
                   progress_rx, restore, child, admin, wiped, policy,
                   forget_args, helpers>>

\* A run that does not store the id of a new repository.
RunBackup_UpdateRepoId_Skip(j) ==
    /\ job[j].pc = "rb_repo_id"
    /\ job' = [job EXCEPT ![j].pc = "rb_marker_read"]
    /\ UNCHANGED <<config, runtime, keychain, cancelled, hardware, watcher,
                   progress_rx, restore, extra>>

\* update_repo_id (backup.rs 299-306): under the write lock the id is stored
\* in the drive's record, when there is one, and the configuration is saved.
RunBackup_UpdateRepoId(j) ==
    /\ job[j].pc = "rb_repo_id"
    /\ config' = IF job[j].drive \in DOMAIN config.trusted_drives
                 THEN [config EXCEPT
                         !.trusted_drives[job[j].drive].repository_id =
                             job[j].repo_id]
                 ELSE config
    /\ job' = [job EXCEPT ![j].pc = "rb_marker_read"]
    /\ UNCHANGED <<runtime, keychain, cancelled, hardware, watcher,
                   progress_rx, restore, extra>>

\* run_backup (backup.rs 72): the marker under the mount path is read; with
\* no marker or an unreadable one the run goes on to the backup step.
RunBackup_ReadMarker(j) ==
    /\ job[j].pc = "rb_marker_read"
    /\ \E m \in read_marker(job[j].mount) :
          job' = [job EXCEPT ![j] =
                    IF m.drive_id \in {None, "Err"}
                    THEN [@ EXCEPT !.pc = SourcesChecked(job[j].sources)]
                    ELSE [@ EXCEPT !.pc = "rb_marker_write",
                                   !.marker = [m EXCEPT !.repository_id =
                                                           job[j].repo_id]]]
    /\ UNCHANGED <<config, runtime, keychain, cancelled, hardware, watcher,
                   progress_rx, restore, extra>>

\* run_backup (backup.rs 73-75): the marker is written back with the
\* repository id; a failure is ignored and the backup step follows.
RunBackup_WriteMarker(j) ==
    /\ job[j].pc = "rb_marker_write"
    /\ \E ok \in BOOLEAN :
          /\ ok => job[j].mount \in plugged \cap mounted
          /\ IF ok THEN write_marker(job[j].mount, job[j].marker)
             ELSE UNCHANGED <<marker, medium>>
    /\ job' = [job EXCEPT ![j].pc = SourcesChecked(job[j].sources)]
    /\ UNCHANGED <<plugged, mounted, events, hotplugs>>
    /\ UNCHANGED <<config, runtime, keychain, cancelled, watcher, progress_rx,
                   restore, child, admin, wiped, policy, forget_args,
                   helpers>>

\* Drive d1 was paired earlier under repository "r0", and the repository
\* has since been removed from its medium.
InitNoRepo ==
    InitOver([d \in {"d1"} |-> TrustedDrive(<<"a">>, "r0")],
             FALSE, FALSE, FALSE, {"d1"}, {},
             [dev \in Devs |-> IF dev = "sdb1" THEN "d1" ELSE "d2"],
             [dev \in Devs |-> IF dev = "sdb1" THEN Medium(<<"a">>, "r0", None)
                               ELSE PairedMedium(dev)])

\* One backup task, manual or automatic, for a medium without repository
\* that is plugged in once.
NextInitRepo ==
    \/ HardwareOnce("sdb1")
    \/ Watcher
    \/ \E j \in OneJob : AttemptAutoBackup_Insert(j)
    \/ \E j \in OneJob : StartBackup(j)
    \/ \E j \in OneJob : RunBackup(j)
    \/ \E j \in OneJob : RunBackup_Init(j)
    \/ \E j \in OneJob : RunBackup_UpdateRepoId(j)
    \/ \E j \in OneJob : RunBackup_ReadMarker(j)
    \/ \E j \in OneJob : RunBackup_WriteMarker(j)

SpecInitRepo == InitNoRepo /\ [][NextInitRepo]_vars

\* The source lists of a configuration: none, one under the home
\* directory, one elsewhere.
SourceLists ==
    {<< >>, <<Documents>>, <<[label |-> "Srv", path |-> <<"srv">>]>>}

\* Drive d1 was paired earlier, with or without a source list of its own,
\* over any global source list; its medium has a repository or has lost it.
InitSources ==
    \E global \in SourceLists,
       own \in {{}} \cup {{l} : l \in SourceLists},
       repo \in {None, "r1"} :
       /\ InitFrom([d \in {"d1"} |->
                      [NewTrustedDrive EXCEPT !.backup_sources = own]],
                   global, TRUE, FALSE, FALSE, FALSE, {"d1"}, {},
                   [dev \in Devs |-> IF dev = "sdb1" THEN "d1" ELSE "d2"],
                   [dev \in Devs |-> IF dev = "sdb1"
                                     THEN Medium(<<"a">>, "r1", repo)
                                     ELSE PairedMedium(dev)])
       /\ policy = DefaultPolicy
       /\ forget_args = NotCalled
       /\ NoCalls(<< >>)

SpecSources == InitSources /\ [][NextInitRepo]_vars

\* ------------------------------------------------ retention (retention.rs)
\* u32::to_string: the decimal digits of n.
RECURSIVE to_string(_)
to_string(n) ==
    LET digit == <<"0", "1", "2", "3", "4", "5", "6", "7", "8", "9">>[(n % 10) + 1]
    IN IF n < 10 THEN <<digit>> ELSE to_string(n \div 10) \o <<digit>>

\* u32::max
max(a, b) == IF a >= b THEN a ELSE b

\* One option of restic forget with its count, when the count is positive
\* (retention.rs 35-54).
KeepArg(flag, n) == IF n > 0 THEN <<flag, to_string(n)>> ELSE << >>

\* The argument list of a policy that is taken as enabled.
to_forget_args_Always(p) ==
    KeepArg("--keep-last", max(p.keep_last, p.min_snapshots))
      \o KeepArg("--keep-daily", p.keep_daily)
      \o KeepArg("--keep-weekly", p.keep_weekly)
      \o KeepArg("--keep-monthly", p.keep_monthly)
      \o KeepArg("--keep-yearly", p.keep_yearly)

\* An argument list whose --keep-last count ignores min_snapshots.
to_forget_args_NoFloor(p) ==
    IF ~p.enabled THEN << >>
    ELSE KeepArg("--keep-last", p.keep_last)
           \o KeepArg("--keep-daily", p.keep_daily)
           \o KeepArg("--keep-weekly", p.keep_weekly)
           \o KeepArg("--keep-monthly", p.keep_monthly)
           \o KeepArg("--keep-yearly", p.keep_yearly)

\* RetentionPolicy::to_forget_args (retention.rs 29-56)
to_forget_args(p) ==
    IF ~p.enabled THEN << >>
    ELSE KeepArg("--keep-last", max(p.keep_last, p.min_snapshots))
           \o KeepArg("--keep-daily", p.keep_daily)
           \o KeepArg("--keep-weekly", p.keep_weekly)
           \o KeepArg("--keep-monthly", p.keep_monthly)
           \o KeepArg("--keep-yearly", p.keep_yearly)

\* The policies of the check: every field from 0 to MaxKeep, and one count
\* of several digits.
RetentionPolicies ==
    [enabled : BOOLEAN, keep_last : (0..MaxKeep) \cup {12},
     keep_daily : 0..MaxKeep, keep_weekly : 0..MaxKeep,
     keep_monthly : 0..MaxKeep, keep_yearly : 0..MaxKeep,
     min_snapshots : 0..MaxKeep]

\* Any retention policy in the configuration.
InitRetention ==
    /\ InitState([d \in {"d1"} |-> NewTrustedDrive], FALSE, FALSE, FALSE, {},
                 {}, [dev \in Devs |-> IF dev = "sdb1" THEN "d1" ELSE "d2"],
                 [dev \in Devs |-> PairedMedium(dev)])
    /\ policy \in RetentionPolicies
    /\ forget_args = NotCalled
    /\ NoCalls(<< >>)

\* apply_retention (backup.rs 289-297) calls to_forget_args on the policy.
ToForgetArgs ==
    /\ ~forget_args.called
    /\ forget_args' = [called |-> TRUE, args |-> to_forget_args(policy)]
    /\ UNCHANGED <<config, runtime, keychain, hardware, medium, admin, wiped>>
    /\ UNCHANGED <<cancelled, watcher, job, progress_rx, restore, child, policy,
                   helpers>>

SpecRetention == InitRetention /\ [][ToForgetArgs]_vars

\* ------------------------------------------------------------ properties
\* Positions of a task inside run_backup, and inside the spawned task.
RunPcs == RunningPcs \cup {"rb_persist", "rb_persist_err"}
TaskPcs == RunPcs \cup {"cleanup"}

\* The runs in flight for drive d.
RunsInFlight(d) == {j \in Jobs : job[j].drive = d /\ job[j].pc \in RunPcs}

\* A task whose run_backup has returned and whose clean-up has executed.
RunEnded(j) == job[j].pc = "done" /\ job[j].status # None

\* The restore_snapshot calls that have written the restore slot and not
\* yet cleared it.
RestoresInFlight == {r \in Restores : restore[r].pc \in {"rs_run", "rs_clear"}}

\* C1: for every drive identity, at most one run_backup execution is in
\* flight at any time.
C1_AtMostOneRunPerDrive ==
    \A d \in Drives : Cardinality(RunsInFlight(d)) <= 1

\* C2: a start_backup whose already-running check finds its drive in
\* running_drive_ids answers with the conflict error and ends there, and the
\* step leaves running_drive_ids, running_cancel_tokens, backup_progress
\* and last_run unchanged.
C2_ConflictStartsNoRun ==
    [][\A j \in Jobs :
         (/\ job[j].pc = "sb_check"
          /\ job'[j].pc # "sb_check"
          /\ job[j].drive \in running_drive_ids)
         => /\ job'[j].pc = "done"
            /\ job'[j].response = "backup already running for this drive"
            /\ UNCHANGED <<running_drive_ids, running_cancel_tokens,
                           backup_progress, last_run>>]_vars

\* A request was refused as a conflict while a run for its drive is in
\* flight and holds the drive's cancellation token.
C2_Witness ==
    \E j \in Jobs :
       /\ job[j].pc = "done"
       /\ job[j].response = "backup already running for this drive"
       /\ \E k \in RunsInFlight(job[j].drive) :
             /\ job[j].drive \in DOMAIN running_cancel_tokens
             /\ running_cancel_tokens[job[j].drive] = BackupToken(k)

\* C3: at most one restore is in flight system-wide at any time.
C3_AtMostOneRestore == Cardinality(RestoresInFlight) <= 1

\* C4: when the removal of a run's drive was handled while the run was in
\* flight and the task has ended, last_run is Failed and interrupted and the
\* drive has no entry in backup_progress or running_cancel_tokens.
C4_UnplugEndsFailedAndClean ==
    \A j \in Jobs :
       (RunEnded(j) /\ job[j].removed /\ RunsInFlight(job[j].drive) = {})
       => /\ last_run.status = "Failed"
          /\ last_run.interrupted
          /\ job[j].drive \notin DOMAIN backup_progress
          /\ job[j].drive \notin DOMAIN running_cancel_tokens

\* C5: a drive with no backup task left (no run and no pending clean-up)
\* has no entry in running_cancel_tokens, and when no restore_snapshot call
\* is executing the restore slot is empty.
C5_NoStaleHandle ==
    /\ \A d \in Drives :
          (\A j \in Jobs : ~(job[j].drive = d /\ job[j].pc \in TaskPcs))
          => d \notin DOMAIN running_cancel_tokens
    /\ (\A r \in Restores : restore[r].pc \in {"idle", "done"})
       => restore_drive_id = None /\ restore_cancel_token = NoToken

\* A backup task ended after its drive was removed during the run, and a
\* restore ended by cancellation; nothing is executing any more.
C5_Witness ==
    /\ \E j \in Jobs : RunEnded(j) /\ job[j].removed /\ job[j].interrupted
    /\ \E r \in Restores :
          restore[r].pc = "done" /\ restore[r].outcome = "cancelled"
    /\ \A j \in Jobs : job[j].pc \notin TaskPcs
    /\ \A r \in Restores : restore[r].pc \in {"idle", "done"}

\* C6: after a run for a drive has ended and its clean-up has executed,
\* backup_progress has no entry for the drive as long as no other run for
\* it is in flight.
C6_ProgressRemovedAtEnd ==
    \A j \in Jobs :
       (RunEnded(j) /\ RunsInFlight(job[j].drive) = {})
       => job[j].drive \notin DOMAIN backup_progress

\* C7: a run during which the removal of its drive was handled, at any
\* point before its final result is built, never gets status Success.
C7_RemovalNeverSuccess ==
    \A j \in Jobs :
       (job[j].removed /\ job[j].pc \in {"rb_persist", "rb_persist_err",
                                          "cleanup", "done"})
       => job[j].status # "Success"

\* C8: when the connectivity re-check at the end of the phases finds the
\* drive not connected under the run's identity, the final result is Failed
\* and interrupted.
C8_DisconnectedAtEndIsFailed ==
    [][\A j \in Jobs :
         (/\ job[j].pc \in {"rb_backup", "rb_quick", "rb_deep", "rb_prune"}
          /\ job'[j].pc = "rb_persist"
          /\ ~(drive_status.connected /\ drive_status.drive_id = job[j].drive))
         => job'[j].status = "Failed" /\ job'[j].interrupted]_vars

\* The backup and the deep verification succeeded and the final result is
\* nevertheless Failed and interrupted.
C8_Witness ==
    \E j \in Jobs :
       /\ job[j].pc = "rb_persist"
       /\ job[j].snapshot_id # 0
       /\ job[j].deep_ran
       /\ ~job[j].quick_failed
       /\ job[j].status = "Failed"
       /\ job[j].interrupted

VerificationFailedMessages ==
    {"Backup completed, but verification failed",
     "Backup completed, but deep verification failed"}

\* C9: a run whose quick verification failed and whose drive is connected
\* at the end has the final status Partial with a verification-failure
\* message, and its deep verification ran if enabled.
C9_QuickFailureIsPartial ==
    \A j \in Jobs :
       (/\ job[j].pc \in {"rb_persist", "rb_persist_err", "cleanup"}
        /\ job[j].quick_failed
        /\ ~job[j].interrupted)
       => /\ job[j].pc # "rb_persist_err"
          /\ job[j].status = "Partial"
          /\ job[j].message \in VerificationFailedMessages
          /\ (job[j].deep_verify => job[j].deep_ran)

\* Quick verification failed, deep verification ran, the drive is connected
\* and the final result is Partial.
C9_Witness ==
    \E j \in Jobs :
       /\ job[j].pc = "rb_persist"
       /\ job[j].quick_failed
       /\ job[j].deep_ran
       /\ job[j].status = "Partial"

\* C10: the last-backup fields of a Trusted Drive Record are written only by
\* runs whose final result is neither Failed nor interrupted.
C10_LastBackupOnlyOnSuccess ==
    \A d \in DOMAIN config.trusted_drives :
       \A j \in Jobs :
          config.trusted_drives[d].last_backup_epoch = j
          => job[j].status # "Failed" /\ ~job[j].interrupted

\* C11: when the backup call returns and the run's token was raised before
\* the subprocess exited, the call returns the interruption error.
C11_CancelledBackupNeverOk ==
    \A j \in Jobs :
       (child[j].ret.call = "backup" /\ child[j].ret.raised)
       => child[j].ret.result = "cancelled"

\* C12: when an engine call of a run returns and the run's token was raised
\* while the subprocess was running, the call returns the interruption
\* error and the subprocess was killed.
C12_EveryCallCancellable ==
    \A j \in Jobs :
       (child[j].ret.call \in {"quick", "deep", "prune"}
        /\ child[j].ret.during)
       => child[j].ret.result = "cancelled" /\ child[j].ret.killed

\* C14: attempt_auto_backup starts a run for drive d (inserts d and spawns
\* the task) only in a state in which d is not in running_drive_ids,
\* auto_backup_on_insert is set, paranoid_mode is not set and the credential
\* store holds a passphrase for d; when it returns without starting a run it
\* leaves running_drive_ids, running_cancel_tokens, backup_progress and
\* last_run unchanged.
C14_AutoBackupOnlyWhenAllowed ==
    [][/\ \A j \in Jobs :
            (/\ watcher.pc = "auto_insert" /\ watcher'.pc = "idle"
             /\ job[j].pc = "idle" /\ job'[j].pc = "rb_start")
            => /\ watcher.drive_id \notin running_drive_ids
               /\ config.auto_backup_on_insert
               /\ ~config.paranoid_mode
               /\ watcher.drive_id \in keychain
       /\ (watcher.pc = "auto_check" /\ watcher'.pc = "idle")
            => UNCHANGED <<running_drive_ids, running_cancel_tokens,
                           backup_progress, last_run>>]_vars

\* C13: at every connect transition the written drive status has trusted
\* = TRUE exactly when the trust store holds a record with the marker's
\* identity at the moment the status is written; with no marker the status
\* is connected, untrusted and without identity.
C13_TrustedIffRecordAtConnect ==
    [][/\ (watcher.pc = "added_write" /\ watcher'.pc # "added_write")
          => /\ drive_status'.connected
             /\ drive_status'.drive_id = watcher.drive_id
             /\ drive_status'.trusted
                  = (watcher.drive_id \in DOMAIN config.trusted_drives)
       /\ (watcher.pc = "added_nomarker" /\ watcher'.pc # "added_nomarker")
          => /\ drive_status'.connected
             /\ ~drive_status'.trusted
             /\ drive_status'.drive_id = None]_vars

\* C15: every invocation of the secure wipe helper was requested, follows a
\* typed confirmation equal to the drive's label, is for the drive that was
\* the connected one, and follows a successful unmount of the device.
C15_WipeOnlyAfterUnmount ==
    \A w \in wiped :
       /\ w.requested
       /\ trim(w.confirm_label) = w.expected
       /\ w.connected
       /\ w.unmount_ok

\* C16: in paranoid mode the credential store holds no passphrase for any
\* trusted drive.
C16_ParanoidNothingCached ==
    config.paranoid_mode => keychain \cap DOMAIN config.trusted_drives = {}

\* C17: no two Trusted Drive Records have labels that are equal under
\* case-insensitive comparison.
C17_LabelsUnique ==
    \A d1 \in DOMAIN config.trusted_drives, d2 \in DOMAIN config.trusted_drives :
       (/\ d1 # d2
        /\ to_lowercase(trim(config.trusted_drives[d1].label))
             = to_lowercase(trim(config.trusted_drives[d2].label)))
       => config.trusted_drives[d1].label = << >>

\* C18: the drive_id and created_epoch in the marker of a medium never change
\* once the medium carries a marker.
C18_MarkerIdentityKept ==
    [][\A dev \in Devs :
          marker[dev] # None
          => /\ marker'[dev] = marker[dev]
             /\ medium'[dev].created_epoch = medium[dev].created_epoch]_vars

\* C19: a run that found no repository on the medium is at its backup step
\* only after init has returned a repository id and, if the drive has a
\* record, with that id stored in the record; the marker holds the id unless
\* its write failed, and the run reaches the backup step in both cases.
C19_InitStoredBeforeBackup ==
    \A j \in Jobs :
       (job[j].pc = "rb_backup" /\ job[j].init)
       => /\ job[j].repo_id # None
          /\ medium[job[j].mount].repo = job[j].repo_id
          /\ job[j].drive \in DOMAIN config.trusted_drives
             => config.trusted_drives[job[j].drive].repository_id
                  = job[j].repo_id

\* A run at its backup step after an init whose id is in the record and not
\* in the marker: the marker write failed and the run went on.
C19_Witness ==
    \E j \in Jobs :
       /\ job[j].pc = "rb_backup" /\ job[j].init
       /\ config.trusted_drives[job[j].drive].repository_id = job[j].repo_id
       /\ medium[job[j].mount].repository_id # job[j].repo_id

\* C20: for every retention policy with enabled = FALSE, to_forget_args
\* returns the empty list, whatever the counts are.
C20_DisabledGivesNoArgs ==
    (forget_args.called /\ ~policy.enabled) => forget_args.args = << >>

\* to_forget_args has returned for a disabled policy with positive counts.
C20_Witness ==
    /\ forget_args.called
    /\ ~policy.enabled
    /\ policy.keep_last > 0
    /\ policy.keep_daily > 0
    /\ policy.min_snapshots > 0

\* The number a string of decimal digits denotes (-1 for anything else).
RECURSIVE Decimal(_)
Decimal(s) ==
    LET d == CASE s[Len(s)] = "0" -> 0 [] s[Len(s)] = "1" -> 1
               [] s[Len(s)] = "2" -> 2 [] s[Len(s)] = "3" -> 3
               [] s[Len(s)] = "4" -> 4 [] s[Len(s)] = "5" -> 5
               [] s[Len(s)] = "6" -> 6 [] s[Len(s)] = "7" -> 7
               [] s[Len(s)] = "8" -> 8 [] s[Len(s)] = "9" -> 9
               [] OTHER -> -1
        rest == Decimal(SubSeq(s, 1, Len(s) - 1))
    IN IF Len(s) = 1 \/ d < 0 THEN d
       ELSE IF rest < 0 THEN -1 ELSE 10 * rest + d

\* The options of restic forget in the order of the argument list.
KeepFlags ==
    <<"--keep-last", "--keep-daily", "--keep-weekly", "--keep-monthly",
      "--keep-yearly">>

\* The argument list is made of pairs of an option and its count, the
\* options in the order of KeepFlags and none of them twice.
KeepPairsInOrder(args) ==
    /\ Len(args) % 2 = 0
    /\ \A i \in 1..Len(args) :
          i % 2 = 1 => \E k \in 1..Len(KeepFlags) : args[i] = KeepFlags[k]
    /\ \A i, j \in 1..Len(args) :
          (i % 2 = 1 /\ j % 2 = 1 /\ i < j) =>
             \E k, l \in 1..Len(KeepFlags) :
                k < l /\ args[i] = KeepFlags[k] /\ args[j] = KeepFlags[l]

\* The option is followed by the decimal digits of n.
Carries(args, flag, n) ==
    \E i \in 1..Len(args) :
       i % 2 = 1 /\ args[i] = flag /\ Decimal(args[i + 1]) = n

\* The option appears with the count n when n is nonzero and not at all
\* when n is zero.
CarriesIffNonzero(args, flag, n) ==
    IF n > 0 THEN Carries(args, flag, n)
    ELSE \A i \in 1..Len(args) : args[i] # flag

\* daily, weekly, monthly and yearly each appear exactly when nonzero.
OtherKeepsIffNonzero ==
    /\ CarriesIffNonzero(forget_args.args, "--keep-daily", policy.keep_daily)
    /\ CarriesIffNonzero(forget_args.args, "--keep-weekly", policy.keep_weekly)
    /\ CarriesIffNonzero(forget_args.args, "--keep-monthly",
                         policy.keep_monthly)
    /\ CarriesIffNonzero(forget_args.args, "--keep-yearly", policy.keep_yearly)

\* C21 as stated: for every enabled policy the list carries --keep-last
\* with the value max(keep_last, min_snapshots), each of daily, weekly,
\* monthly and yearly appears exactly when its value is nonzero, and the
\* order is last, daily, weekly, monthly, yearly.
C21_KeepLastAlwaysCarried ==
    (forget_args.called /\ policy.enabled) =>
       /\ Carries(forget_args.args, "--keep-last",
                  max(policy.keep_last, policy.min_snapshots))
       /\ OtherKeepsIffNonzero
       /\ KeepPairsInOrder(forget_args.args)

\* C21 (amended): for every enabled policy the list carries --keep-last
\* with the value max(keep_last, min_snapshots) when that maximum is
\* nonzero and no --keep-last when it is zero; each of daily, weekly,
\* monthly and yearly appears exactly when its value is nonzero; the order
\* is last, daily, weekly, monthly, yearly.
C21_KeepArgsOfEnabledPolicy ==
    (forget_args.called /\ policy.enabled) =>
       /\ CarriesIffNonzero(forget_args.args, "--keep-last",
                            max(policy.keep_last, policy.min_snapshots))
       /\ OtherKeepsIffNonzero
       /\ KeepPairsInOrder(forget_args.args)

\* to_forget_args has returned for an enabled policy whose min_snapshots
\* exceeds a nonzero keep_last, with some counts zero and others not.
C21_Witness ==
    /\ forget_args.called
    /\ policy.enabled
    /\ policy.keep_last > 0
    /\ policy.min_snapshots > policy.keep_last
    /\ policy.keep_daily = 0
    /\ policy.keep_weekly > 0
    /\ policy.keep_yearly > 0

\* C22: sanitize_label is idempotent: when sanitize_label(s) returns a
\* label t, sanitize_label(t) returns t again.
C22_SanitizeIdempotent ==
    Len(label_call.outputs) = 2 =>
       label_call.outputs[2] = label_call.outputs[1]

\* sanitize_label was called twice on a string longer than the cap that it
\* changed.
C22_Witness ==
    /\ Len(label_call.outputs) = 2
    /\ Len(label_call.input) > LABEL_MAX_LEN
    /\ label_call.outputs[1] # label_call.input
    /\ \E i \in 1..Len(label_call.input) :
          label_call.input[i] \in ControlChars

\* The characters of s that are not control characters, after the white
\* space in front of s, as far as the cap reaches.
Survivors(s) ==
    LET kept == SelectSeq(trim_start(s), LAMBDA c : c \notin ControlChars)
    IN [i \in 1..(IF Len(kept) < LABEL_MAX_LEN THEN Len(kept)
                  ELSE LABEL_MAX_LEN) |-> kept[i]]

\* C23: what sanitize_label returns holds no control character, neither
\* starts nor ends with white space and has at most LABEL_MAX_LEN
\* characters; it is absent (the empty sequence, never a present empty
\* string) exactly when nothing but white space and control characters
\* survives within the cap.
C23_SanitizedShape ==
    label_call.outputs # << >> =>
       LET t == label_call.outputs[1]
       IN /\ \A i \in 1..Len(t) : t[i] \notin ControlChars
          /\ t # << >> => (t[1] \notin Whitespace /\ t[Len(t)] \notin Whitespace)
          /\ Len(t) <= LABEL_MAX_LEN
          /\ t = << >> <=>
                \A i \in 1..Len(Survivors(label_call.input)) :
                   Survivors(label_call.input)[i] \in Whitespace

\* sanitize_label returned a label of fewer than LABEL_MAX_LEN characters
\* for a string longer than the cap: the cut left white space at the end.
C23_Witness ==
    /\ label_call.outputs # << >>
    /\ Len(label_call.input) > LABEL_MAX_LEN
    /\ label_call.outputs[1] # << >>
    /\ Len(label_call.outputs[1]) < LABEL_MAX_LEN
    /\ label_call.input[1] \notin Whitespace

RunsIn(log) == {i \in 1..Len(log) : log[i].what # "sleep"}
SleepsIn(log) == {i \in 1..Len(log) : log[i].what = "sleep"}

\* C25: mount_partition makes at most three mount attempts; an attempt that
\* fails with "not a mountable filesystem" is followed by a sleep of the
\* fixed backoff and another attempt; an attempt that fails for any other
\* reason ends the call with an error at once, without sleep; after three
\* "not a mountable filesystem" failures the call ends with an error after
\* the third attempt, having slept twice and not after the last attempt.
C25_MountRetries ==
    LET log == mount_call.log
        returned == mount_call.pc = "done"
    IN /\ Cardinality(RunsIn(log)) <= 3
       /\ \A i \in SleepsIn(log) :
             /\ log[i].ms = MOUNT_BACKOFF_MS
             /\ i > 1 /\ log[i - 1].outcome = "not_mountable"
             /\ returned => (i < Len(log) /\ log[i + 1].what = "udisksctl mount")
       /\ \A i \in RunsIn(log) :
             /\ log[i].outcome \in {"spawn", "other"} =>
                   (i = Len(log) /\ returned /\ mount_call.result = "Err")
             /\ (log[i].outcome = "not_mountable"
                   /\ Cardinality({k \in RunsIn(log) : k <= i}) < 3)
                  => (i < Len(log) /\ log[i + 1].what = "sleep")
       /\ Cardinality({i \in RunsIn(log) : log[i].outcome = "not_mountable"})
             = 3 =>
             /\ returned /\ mount_call.result = "Err"
             /\ Cardinality(SleepsIn(log)) = 2
             /\ log[Len(log)].what = "udisksctl mount"

\* mount_partition has returned after three attempts that all found the
\* device not mountable yet.
C25_Witness ==
    /\ mount_call.pc = "done"
    /\ Cardinality({i \in RunsIn(mount_call.log) :
                      mount_call.log[i].outcome = "not_mountable"}) = 3

\* The runs of the formatting tool in the log of the call.
FormatRuns ==
    {i \in 1..Len(format_call.log) :
       format_call.log[i].what \in {"udisksctl format", "mkfs.exfat",
                                    "pkexec mkfs.exfat"}}

\* After a call that ran the tool in tools: a first run that the tool
\* ended by rejecting the label option was followed by exactly one more
\* run, with the other label option, and the call failed exactly when that
\* second run failed; a first run that failed otherwise was the only run
\* and the call failed.
RetriesOnceOnRejectedFlag(tools) ==
    LET log == format_call.log
        first == CHOOSE i \in FormatRuns : \A k \in FormatRuns : i <= k
        last == CHOOSE i \in FormatRuns : \A k \in FormatRuns : k <= i
    IN (format_call.pc = "done" /\ FormatRuns # {}
          /\ log[first].what \in tools) =>
          /\ log[first].outcome = "rejected" =>
                /\ Cardinality(FormatRuns) = 2
                /\ log[last].flag # log[first].flag
                /\ log[last].flag = "-L"
                /\ format_call.result = "Err" <=> log[last].outcome # "ok"
          /\ log[first].outcome \in {"spawn", "other"} =>
                /\ Cardinality(FormatRuns) = 1
                /\ format_call.result = "Err"

\* C26 as stated: on either path, the privileged helper (udisksctl format)
\* or the fallback tool (mkfs.exfat), a rejected primary label option is
\* followed by exactly one more attempt with the alternate option, an error
\* is returned only after that attempt failed too, and any other failure
\* is returned without a second attempt.
C26_RetryOnEitherPath ==
    RetriesOnceOnRejectedFlag({"udisksctl format", "mkfs.exfat",
                               "pkexec mkfs.exfat"})

\* C26 (amended): when the fallback tool mkfs.exfat is used (directly or
\* through pkexec) and rejects -n, exactly one more attempt with -L is made
\* and an error is returned only after that attempt failed too; any other
\* failure of mkfs.exfat, and every failure of udisksctl format, is
\* returned without a second attempt.
C26_RetryOnFallbackPath ==
    /\ RetriesOnceOnRejectedFlag({"mkfs.exfat", "pkexec mkfs.exfat"})
    /\ (format_call.pc = "done" /\ FormatRuns # {}
          /\ \E i \in FormatRuns : format_call.log[i].what = "udisksctl format")
         => /\ Cardinality(FormatRuns) = 1
            /\ format_call.result = "Err" <=>
                  \E i \in FormatRuns : format_call.log[i].outcome # "ok"

\* mkfs.exfat rejected -n and the second run with -L formatted the medium.
C26_Witness ==
    /\ format_call.pc = "done"
    /\ format_call.result = "Ok"
    /\ \E i \in FormatRuns :
          /\ format_call.log[i].what = "pkexec mkfs.exfat"
          /\ format_call.log[i].flag = "-n"
          /\ format_call.log[i].outcome = "rejected"
    /\ \E i \in FormatRuns : format_call.log[i].flag = "-L"

\* The place of a phase in the order of run_backup.
PhaseRank(phase) ==
    CASE phase = "BackingUp" -> 1
      [] phase = "VerifyingQuick" -> 2
      [] phase = "VerifyingDeep" -> 3
      [] phase = "Pruning" -> 4
      [] phase = "Completed" -> 5
      [] OTHER -> 0

\* C27: the phases one run of run_backup writes to last_run come in the
\* order BackingUp, VerifyingQuick, VerifyingDeep, Pruning, Completed: the
\* first is BackingUp, the last of a run that has returned is Completed, no
\* phase is followed by an earlier one or by itself, and VerifyingQuick and
\* VerifyingDeep are written only when quick_verify, respectively
\* deep_verify, is enabled and the backup step succeeded.
C27_PhasesInOrder ==
    \A j \in Jobs :
       LET p == job[j].phases
       IN /\ \A i \in 1..Len(p) : PhaseRank(p[i]) > 0
          /\ p # << >> => p[1] = "BackingUp"
          /\ \A i \in 1..Len(p), k \in 1..Len(p) :
                i < k => PhaseRank(p[i]) < PhaseRank(p[k])
          /\ job[j].pc = "cleanup" => p[Len(p)] = "Completed"
          /\ job[j].pc \in RunPcs /\ job[j].pc # "rb_start" => p # << >>
          /\ \A i \in 1..Len(p) :
                /\ p[i] = "VerifyingQuick" =>
                      (job[j].quick_verify /\ job[j].backup_step = "ok")
                /\ p[i] = "VerifyingDeep" =>
                      (job[j].deep_verify /\ job[j].backup_step = "ok")

\* A run has written all five phases and returned.
C27_Witness ==
    \E j \in Jobs :
       /\ job[j].pc = "cleanup"
       /\ job[j].phases = <<"BackingUp", "VerifyingQuick", "VerifyingDeep",
                            "Pruning", "Completed">>

\* C28: whenever last_run is present with a phase other than Completed its
\* status is Partial and it has no finished timestamp; Success and Failed
\* are stored only with the phase Completed.
C28_UnfinishedIsPartial ==
    last_run # NoRun =>
       /\ last_run.phase # "Completed" =>
             (last_run.status = "Partial" /\ ~last_run.finished)
       /\ last_run.status \in {"Success", "Failed"} =>
             last_run.phase = "Completed"

\* last_run shows the deep verification of a run whose quick verification
\* failed and whose drive is gone.
C28_Witness ==
    /\ last_run.phase = "VerifyingDeep"
    /\ \E j \in Jobs : job[j].pc = "rb_deep" /\ job[j].quick_failed
    /\ ~drive_status.connected

\* C29: a run enters the pruning phase, and calls forget/prune, only when
\* retention is enabled and neither verification failed; a run whose quick
\* or deep verification failed never does; a run whose pruning failed
\* returns Partial unless the drive is gone at the end, never Failed for the
\* pruning alone.
C29_PruneOnlyAfterCleanVerification ==
    \A j \in Jobs :
       LET pruning == \E i \in 1..Len(job[j].phases) :
                         job[j].phases[i] = "Pruning"
       IN /\ (job[j].pc = "rb_prune" \/ pruning) =>
                /\ job[j].retention
                /\ ~job[j].quick_failed
                /\ ~job[j].deep_failed
          /\ job[j].prune_failed => pruning
          /\ (job[j].prune_failed /\ job[j].pc \in {"rb_persist", "cleanup"}) =>
                /\ job[j].interrupted => job[j].status = "Failed"
                /\ ~job[j].interrupted => job[j].status = "Partial"
          /\ (job[j].prune_failed /\ job[j].pc = "cleanup"
                /\ last_run.run = j) =>
                last_run.status = job[j].status

\* A run whose pruning failed has stored Partial with the drive connected.
C29_Witness ==
    \E j \in Jobs :
       /\ job[j].pc = "cleanup"
       /\ job[j].prune_failed
       /\ job[j].deep_verify
       /\ last_run.run = j
       /\ last_run.status = "Partial"
       /\ drive_connected(job[j].drive)

\* C30: a failed backup step is fatal: the run writes no verification and
\* no pruning phase, its result is Failed, Completed, without snapshot id,
\* interrupted exactly when the drive is not the connected drive at the
\* moment the error is handled, and the last-backup fields of the trusted
\* drive stay as they were.
C30_FailedBackupIsFatal ==
    [][\A j \in Jobs :
          /\ (job[j].pc = "rb_err" /\ job'[j].pc = "rb_persist_err"
                /\ job[j].backup_step = "failed") =>
                /\ job'[j].interrupted = ~drive_connected(job[j].drive)
                /\ job'[j].status = "Failed"
                /\ job'[j].snapshot_id = 0
          /\ (job[j].pc = "rb_persist_err" /\ job'[j].pc = "cleanup"
                /\ job[j].backup_step = "failed") =>
                /\ job'[j].phases = <<"BackingUp", "Completed">>
                /\ last_run'.status = "Failed"
                /\ last_run'.phase = "Completed"
                /\ last_run'.snapshot_id = 0
                /\ last_run'.interrupted = job[j].interrupted
                /\ config'.trusted_drives = config.trusted_drives
          /\ job[j].backup_step = "failed" =>
                /\ job'[j].pc \notin {"rb_quick", "rb_deep", "rb_prune",
                                      "rb_persist"}
                /\ job'[j].backup_step = "failed" =>
                      config'.trusted_drives = config.trusted_drives]_vars

\* The backup step of a run failed with the drive connected and the run
\* stored its result.
C30_Witness ==
    \E j \in Jobs :
       /\ job[j].pc = "cleanup"
       /\ job[j].backup_step = "failed"
       /\ ~job[j].interrupted
       /\ job[j].quick_verify
       /\ job[j].retention
       /\ last_run.run = j
       /\ last_run.phase = "Completed"

\* The drive's effective source list is empty: its own list when it has one,
\* otherwise the global list.
NoEffectiveSource(d) ==
    /\ d \in DOMAIN config.trusted_drives
    /\ LET own == config.trusted_drives[d].backup_sources
       IN IF own = {} THEN config.backup_sources = << >> ELSE own = {<< >>}

\* C31: when the effective source list of a run's drive is empty, the run
\* never reaches the backup step, so the engine's backup subprocess is
\* never spawned and no report is emitted, and the run returns Failed.
C31_NoSourcesNoBackup ==
    \A j \in Jobs :
       (job[j].pc \in TaskPcs /\ NoEffectiveSource(job[j].drive)) =>
          /\ job[j].pc # "rb_backup"
          /\ job[j].backup_step = None
          /\ job[j].emitted = 0
          /\ job[j].pc = "cleanup" =>
                (job[j].status = "Failed" /\ job[j].phases[Len(job[j].phases)]
                                               = "Completed")

\* A run for a drive whose own source list is empty, over a global list
\* that is not, has initialised the repository and returned.
C31_Witness ==
    \E j \in Jobs :
       /\ job[j].pc = "cleanup"
       /\ job[j].init
       /\ config.trusted_drives[job[j].drive].backup_sources = {<< >>}
       /\ config.backup_sources # << >>
       /\ drive_connected(job[j].drive)

\* Status line x was emitted before status line y: earlier in the same run,
\* or already emitted by its run when y was read.
EmittedBefore(x, y) ==
    IF x.run = y.run THEN x.seq < y.seq ELSE y.seen[x.run] >= x.seq

\* C32: for each drive the values written to backup_progress follow the
\* order in which the status lines were emitted: no write replaces the
\* value of a status line by the value of one emitted before it.
C32_ProgressInEmissionOrder ==
    [][\A d \in (DOMAIN backup_progress) \cap (DOMAIN backup_progress') :
          backup_progress'[d] # backup_progress[d] =>
             ~EmittedBefore(backup_progress'[d], backup_progress[d])]_vars

\* C33: when handle_removed finishes for a device node other than the one
\* recorded as connected, the drive status, running_drive_ids, the
\* cancellation handles, backup_progress and last_run are as they were,
\* whatever the mount state of the recorded drive.
C33_OtherDeviceRemovalIgnored ==
    [][(/\ watcher.pc = "removed_write"
        /\ watcher'.pc = "idle"
        /\ drive_status.connected
        /\ drive_status.devnode # None
        /\ drive_status.devnode # watcher.devnode)
       => /\ UNCHANGED runtime
          /\ cancelled' = cancelled]_vars

\* C34: once the removal of the drive under restore has been handled while
\* restore_snapshot executes the engine call, the restore's cancellation
\* handle is raised and the restore slot no longer holds it; and a restore
\* whose handle was raised does not return "completed".
C34_UnplugCancelsRestore ==
    \A r \in Restores :
       /\ (restore[r].pc = "rs_run" /\ ~drive_connected(restore[r].drive))
          => /\ RestoreToken(r) \in cancelled
             /\ restore_cancel_token # RestoreToken(r)
       /\ (restore[r].pc = "rs_clear" /\ RestoreToken(r) \in cancelled)
          => restore[r].outcome # "ok"

\* C35: a status that is not connected is not trusted and has no drive id,
\* label, mount path or device node; a trusted status is connected and has
\* a drive id and a mount path.
C35_StatusConsistent ==
    /\ ~drive_status.connected =>
          /\ ~drive_status.trusted
          /\ drive_status.drive_id = None
          /\ drive_status.label = << >>
          /\ drive_status.mount_path = None
          /\ drive_status.devnode = None
    /\ drive_status.trusted =>
          /\ drive_status.connected
          /\ drive_status.drive_id # None
          /\ drive_status.mount_path # None

\* A drive was set up, renamed while connected, and its status was cleared
\* afterwards.
C35_Witness ==
    /\ ~drive_status.connected
    /\ \E a, b \in Admins :
          /\ admin[a].op = "setup" /\ admin[a].response = "ok"
          /\ admin[b].op = "update" /\ admin[b].response = "ok"

\* C36: while a run_backup execution for a drive is in progress, whatever
\* its phase, the drive is in running_drive_ids.
C36_RunningWhileInProgress ==
    \A j \in Jobs :
       job[j].pc \in RunPcs => job[j].drive \in running_drive_ids

\* C37: a run for drive d1 whose device was plugged in once and never
\* removed, and whose backup step succeeded with verification and retention
\* off, returns Success and not interrupted, also when the other device was
\* plugged in meanwhile.
C37_OtherDriveLeavesRunAlone ==
    \A j \in Jobs :
       (/\ job[j].pc \in {"rb_persist", "cleanup"}
        /\ job[j].drive = "d1"
        /\ job[j].backup_step = "ok"
        /\ hotplugs = 2
        /\ plugged = Devs)
       => job[j].status = "Success" /\ ~job[j].interrupted

\* C38: a drive status with trusted = TRUE names an identity the trust
\* store holds a record of.
C38_TrustedHasRecord ==
    drive_status.trusted => drive_status.drive_id \in DOMAIN config.trusted_drives

\* C39: once last_run is in a phase after the backup phase, a progress
\* report taken from a run's channel leaves last_run.message as it is.
C39_ProgressOnlyWhileBackingUp ==
    [][\A j \in Jobs :
         (/\ Len(progress_rx'[j]) < Len(progress_rx[j])
          /\ last_run.phase \in {"VerifyingQuick", "VerifyingDeep", "Pruning",
                                 "Completed"})
         => last_run'.message = last_run.message]_vars

\* C40: every drive id in running_drive_ids is eventually removed from it,
\* and for every run that starts last_run eventually holds that run's
\* finished result with phase Completed.
C40_EveryBackupEnds ==
    /\ \A d \in Drives :
          (d \in running_drive_ids) ~> (d \notin running_drive_ids)
    /\ \A j \in Jobs :
          (job[j].pc = "rb_start")
             ~> (/\ last_run.run = j
                 /\ last_run.phase = "Completed"
                 /\ last_run.finished)

\* A run has ended: its id is out of running_drive_ids and last_run holds
\* its result.
C40_Witness ==
    \E j \in Jobs :
       /\ RunEnded(j)
       /\ running_drive_ids = {}
       /\ last_run.run = j
       /\ last_run.phase = "Completed"
====
